---- MODULE Spec2Model ----
(***************************************************************************)
(* A model of the TETRA analyzer's trunking channel manager (trunking.c),  *)
(* its audio ring (audio_playback.c) and its TEA1 key-recovery engine      *)
(* (tea1_crack.c, tea1_crypto.c).                                          *)
(*                                                                         *)
(* Time is counted in ticks of two seconds, the hold time main() sets:     *)
(* get_timestamp_us() is 2000000 * now, a duration in ms is 2000 * ticks.  *)
(***************************************************************************)
EXTENDS Integers, Sequences, FiniteSets, TLC

VARIABLES
    \* ---- channel_manager_t (tetra_analyzer.h) ----
    now,                    \* the wall clock read by get_timestamp_us()
    running,                \* mgr->running
    voice_channels,         \* mgr->voice_channels[MaxChannels]
    active_channel_count,   \* mgr->active_channel_count
    current_channel_idx,    \* mgr->current_channel_idx
    current_frequency,      \* mgr->current_frequency
    history,                \* mgr->history[HistorySize]
    history_head,           \* mgr->history_head
    history_count,          \* mgr->history_count
    last_control_msg_time,  \* mgr->last_control_msg_time
    control_msg_count,      \* mgr->control_msg_count
    total_calls,            \* mgr->total_calls
    emergency_calls,        \* mgr->emergency_calls
    encrypted_calls,        \* mgr->encrypted_calls
    talk_groups,            \* mgr->talk_groups[0 .. talk_group_count-1]
    mon_pc,                 \* channel_monitor_thread: "sleep" or "scan"
    mon_now,                \* channel_monitor_thread's local `now`
    mon_oob,                \* the monitor loop has indexed past voice_channels[]
    \* ---- audio_playback_t (tetra_analyzer.h) ----
    ring_buffer,            \* playback->ring_buffer[RingSize]
    ring_write_pos,         \* playback->ring_write_pos
    ring_read_pos,          \* playback->ring_read_pos
    \* ---- observers of the audio ring ----
    written,                \* number of samples written so far; the k-th is k
    delivered,              \* the samples the consumer has taken, in order
    dropped,                \* number of samples the writer has dropped
    write_after_read,       \* a write has followed a chunk read
    \* ---- tea1_crack_key / tea1_brute_force_32bit (tea1_crack.c) ----
    crack_pc,               \* "idle", "loop", "report" or "done"
    ciphertext,             \* the first ciphertext block
    known_plaintext,        \* the known plaintext
    plaintext_len,          \* len
    candidate,              \* the loop variable of the brute force
    keys_tested,            \* keys_tested
    found_key,              \* found_key
    success,                \* success
    ctx_reduced_key,        \* ctx->reduced_key of the result context
    crack_ret,              \* the value tea1_crack_key returns
    \* ---- sdr_callback's control path (main.c, control_channel.c) ----
    cb_bits,                \* active_demod->demod_bits[0 .. bit_count-1]
    ctrl_msg,               \* the local ctrl_msg after the decoder returned
    decode_ok,              \* what decode_control_channel_data returned
    \* ---- the threads of main() (main.c) ----
    g_running,              \* g_running
    sdr_running,            \* g_sdr->running
    playback_running,       \* g_playback->running
    main_pc,                \* where the main thread is, "capture" to "done"
    pb_pc,                  \* playback_thread_func: "test", "body", "exited"
    read_error,             \* rtlsdr_read_sync has failed
    write_error,            \* snd_pcm_writei has failed beyond recovery
    \* ---- observer of the channel manager's mutexes (trunking.c) ----
    tune_locks,             \* the mutexes the caller held at the latest
                            \* channel_manager_tune_to_channel call
    \* ---- detection_params_t and the operator panel (gui.c) ----
    params,                 \* *g_params, powers and the multiplier in tenths,
                            \* correlations and the cutoff in hundredths
    scales,                 \* the values the panel's sliders show
    slides,                 \* number of slider moves so far
    \* ---- the mutexes params->lock and status->lock ----
    held,                   \* held[t]: the mutexes thread t holds
    prog,                   \* prog[t]: what thread t has left to do in the
                            \* function or handler it is running
    stuck,                  \* the threads blocked on a mutex they hold
    \* ---- tetra_demod_t and detection_status_t (tetra_demod.c) ----
    bit_count,              \* demod->bit_count
    demod_bits,             \* demod->demod_bits[0 .. BurstLength-1]
    buffer_power,           \* RMS power of i_samples/q_samples, in tenths
    demod_ret,              \* what the latest tetra_demod_process returned
    demod_call,             \* its len and the signal_power it computed
    status,                 \* *demod->status; last_correlation in 22nds
    det,                    \* the latest tetra_detect_burst: what it
                            \* returned, its signal_power and parameters
    sdr_pc,                 \* sdr_callback: "process" or "detect" comes next
    buffers,                \* number of buffers processed so far
    \* ---- tea1_context_t and tea1_decrypt_block (tea1_crypto.c) ----
    tea1_reduced_key,       \* ctx->reduced_key of the decrypting context
    tea1_input,             \* input[0 .. 7] of the context's latest
                            \* tea1_decrypt_block, << >> before the first
    tea1_output,            \* output[0 .. 7] it stored
    \* ---- two tea1_context_t given the same calls (tea1_crypto.c) ----
    pair_ctx,               \* pair_ctx[c]: key, iv, reduced_key and
                            \* vulnerability_mode of context c
    pair_input,             \* input of the latest call made on both
    pair_output,            \* pair_output[c]: the bytes the call stored
                            \* through output for context c
    \* ---- sdr_callback and the globals it works on (main.c) ----
    cb_pc,                  \* "args" before main() has read the command
                            \* line, "capture" afterwards
    g_config,               \* the options of g_config sdr_callback reads
    g_tea1_ctx,             \* the TEA1 context of main()
    demod,                  \* demod[d]: bit_count and demod_bits of g_demod
                            \* and of the manager's control_demod
    callbacks,              \* the number of buffers delivered so far
    cb,                     \* what the latest sdr_callback did
    \* ---- a tea1_context_t used for tea1_decrypt_stream calls ----
    stream_ctx,             \* key, iv, reduced_key and vulnerability_mode
    stream_calls,           \* tea1_decrypt_stream calls since tea1_init
    stream_input,           \* the whole blocks of all inputs since tea1_init
    stream_output,          \* the bytes the calls since tea1_init stored
    stream_call,            \* the latest call: ctx->iv before it, its input,
                            \* the output buffer before and after it
    \* ---- tetra_codec_t and its latest frame (tetra_codec.c) ----
    frame_count,            \* codec->frame_count
    encoded_bits,           \* the bytes of the latest frame, << >> before
    codec_fields,           \* the fields tetra_codec_decode_frame extracted,
                            \* each as the set of the bits set in it
    pulses                  \* pulse_pos and pulse_sign of the four pulses

slotVars == << voice_channels, active_channel_count, current_channel_idx,
               current_frequency >>
histVars == << history, history_head, history_count >>
statVars == << last_control_msg_time, control_msg_count, total_calls,
               emergency_calls, encrypted_calls, talk_groups >>
monVars == << mon_pc, mon_now, mon_oob >>
trunkVars == << now, running, slotVars, histVars, statVars, monVars >>

ringVars == << ring_buffer, ring_write_pos, ring_read_pos, written,
               delivered, dropped, write_after_read >>

crackVars == << crack_pc, ciphertext, known_plaintext, plaintext_len,
                candidate, keys_tested, found_key, success, ctx_reduced_key,
                crack_ret >>

pduVars == << cb_bits, ctrl_msg, decode_ok >>

lifeVars == << g_running, sdr_running, playback_running, main_pc, pb_pc,
              read_error, write_error >>

lockVars == << tune_locks >>

panelVars == << params, scales, slides >>
mutexVars == << held, prog, stuck >>

demodVars == << bit_count, demod_bits, buffer_power, demod_ret, demod_call,
               status, det, sdr_pc, buffers >>

cipherVars == << tea1_reduced_key, tea1_input, tea1_output >>

pairVars == << pair_ctx, pair_input, pair_output >>

cbVars == << cb_pc, g_config, g_tea1_ctx, demod, callbacks, cb >>

streamVars == << stream_ctx, stream_calls, stream_input, stream_output,
                stream_call >>

codecVars == << frame_count, encoded_bits, codec_fields, pulses >>

vars == << trunkVars, ringVars, crackVars, pduVars, lifeVars, lockVars,
          panelVars, mutexVars, demodVars, cipherVars, pairVars, cbVars,
          streamVars, codecVars >>

\* what the steps of one component leave alone
detVars == << panelVars, mutexVars, demodVars >>
tea1Vars == << cipherVars, pairVars, streamVars, codecVars >>
notTrunk == << ringVars, crackVars, pduVars, lifeVars, lockVars, detVars,
              tea1Vars, cbVars >>
notTrunkPdu == << ringVars, crackVars, lifeVars, detVars, tea1Vars >>
notRing == << trunkVars, crackVars, pduVars, lifeVars, lockVars, detVars,
             tea1Vars, cbVars >>
notCrack == << trunkVars, ringVars, pduVars, lifeVars, lockVars, detVars,
              tea1Vars, cbVars >>
notLife == << ringVars, crackVars, pduVars, lockVars, detVars, tea1Vars,
             cbVars >>
notDet == << trunkVars, ringVars, crackVars, pduVars, lifeVars, lockVars,
            tea1Vars, cbVars >>
notCipher == << trunkVars, ringVars, crackVars, pduVars, lifeVars, lockVars,
               detVars, pairVars, cbVars, streamVars, codecVars >>
notPair == << trunkVars, ringVars, crackVars, pduVars, lifeVars, lockVars,
             detVars, cipherVars, cbVars, streamVars, codecVars >>
notStream == << trunkVars, ringVars, crackVars, pduVars, lifeVars, lockVars,
               detVars, cipherVars, pairVars, cbVars, codecVars >>
notCodec == << trunkVars, ringVars, crackVars, pduVars, lifeVars, lockVars,
              detVars, cipherVars, pairVars, cbVars, streamVars >>
notCallback == << ringVars, crackVars, lifeVars, detVars, tea1Vars >>

----------------------------------------------------------------------------
(* Bounds of the model                                                     *)

\* MAX_ACTIVE_CHANNELS is 16 in the program; the model keeps this many slots.
MaxChannels == 2
\* CHANNEL_HISTORY_SIZE is 100 in the program; the model keeps this many entries.
HistorySize == 2
\* The clock stops advancing at MaxTime.
MaxTime == 2
\* At most this many control messages are processed.
MaxMsgs == 3
\* AUDIO_RING_BUFFER_SIZE is 32768 in the program; the model's ring_size.
RingSize == 4
\* The consumer's chunk is 512 samples in the program; the model's chunk.
ChunkSize == 2
\* At most this many samples are written to the ring in all,
MaxSamples == 10
\* and at most this many by one audio_playback_write call.
MaxCount == 3
\* test_limit of tea1_brute_force_32bit (1000000 in the program)
TestLimit == 3
\* In the model of main()'s threads the capture delivers at most this many
\* control messages
MaxLifeMsgs == 1
\* and at most this many audio samples.
MaxLifeSamples == 3
\* The operator moves a slider of the panel at most this many times.
MaxSlides == 2
\* TETRA_BURST_LENGTH is 510 in the program; the model's bit buffer.
BurstLength == 45
\* At most this many buffers are demodulated.
MaxBuffers == 2
\* buffers handed to sdr_callback
MaxCallbacks == 3
\* tea1_decrypt_stream calls on a context between two tea1_init
MaxStreamCalls == 3
\* frames handed to the codec
MaxCodecFrames == 3

----------------------------------------------------------------------------
(* Program constants                                                       *)

\* g_config.trunking.hold_time_ms = 2000: one tick
HoldTime == 1
\* CONTROL_CHANNEL_TIMEOUT = 5000 ms: a difference of whole ticks exceeds
\* 5000 ms exactly when it exceeds 2 ticks
ControlChannelTimeout == 2
\* TETRA_FREQUENCY_MIN and TETRA_FREQUENCY_MAX
TetraFrequencyMin == 380000000
TetraFrequencyMax == 470000000
\* the control channel of the usage example: -c 420000000
ControlFreq == 420000000
\* channel spacing of a CHANNEL_GRANT's 12-bit slot field
ChannelSpacing == 25000

\* uint64_t subtraction wraps modulo 2^64.  Clock values of the model stay
\* far below Wrap, so a wrapped difference exceeds every threshold it is
\* compared with, as the 64-bit one does.
Wrap == 2 ^ 20
U64Sub(a, b) == IF a >= b THEN a - b ELSE Wrap + a - b

Slots == 0 .. (MaxChannels - 1)

MsgTypes == { "CHANNEL_GRANT", "CHANNEL_RELEASE", "GROUP_CALL",
              "EMERGENCY", "STATUS" }

\* Talk groups heard on the air: 1000 is in the table (main.c adds every -t
\* talk group monitored with priority 5), 2000 is not.
TalkGroupIds == { 1000, 2000 }

\* Frequency of a CHANNEL_GRANT whose 12-bit slot field is n
GrantFreq(n) == 420000000 + ChannelSpacing * n

\* trunking_config_t as main() sets it
config == [ control_channel_freq |-> ControlFreq,
            auto_follow          |-> TRUE,
            record_all           |-> FALSE,
            priority_threshold   |-> 0,
            hold_time            |-> HoldTime,
            emergency_override   |-> TRUE ]

\* ctrl_message_t
Msg(type, tg, src, freq, enc, emer) ==
    [ type |-> type, talk_group_id |-> tg, source_id |-> src,
      channel_freq |-> freq, encrypted |-> enc, emergency |-> emer ]

\* The control messages fed to the manager, as decode_control_channel_data
\* fills them per PDU type (fields a type does not carry are zero / false):
\* grants for the monitored talk group on two channels, a grant for the
\* unknown talk group, and an emergency grant for it.
Messages ==
    { Msg("CHANNEL_GRANT", 1000, 77, GrantFreq(1), FALSE, FALSE),
      Msg("CHANNEL_GRANT", 1000, 78, GrantFreq(2), TRUE, FALSE),
      Msg("CHANNEL_GRANT", 2000, 79, GrantFreq(1), FALSE, FALSE),
      Msg("CHANNEL_GRANT", 2000, 79, GrantFreq(2), TRUE, TRUE) }
    \cup { Msg("CHANNEL_RELEASE", tg, 0, 0, FALSE, FALSE) : tg \in TalkGroupIds }
    \cup { Msg("GROUP_CALL", 1000, 77, 0, FALSE, FALSE),
           Msg("EMERGENCY", 2000, 79, 0, FALSE, TRUE),
           Msg("STATUS", 0, 77, 0, FALSE, FALSE) }

\* calloc'ed voice_channel_t and channel_history_entry_t
EmptySlot == [ frequency |-> 0, talk_group_id |-> 0, source_id |-> 0,
               active |-> FALSE, encrypted |-> FALSE,
               grant_time |-> 0, last_update |-> 0 ]
EmptyEntry == [ timestamp |-> 0, talk_group_id |-> 0, frequency |-> 0,
                source_id |-> 0, duration_ms |-> 0 ]

----------------------------------------------------------------------------
(* Channel manager                                                         *)

\* channel_manager_get_talk_group: index of the first entry with this id, or -1
GetTalkGroup(id) ==
    IF \E i \in DOMAIN talk_groups : talk_groups[i].id = id
    THEN CHOOSE i \in DOMAIN talk_groups :
            /\ talk_groups[i].id = id
            /\ \A j \in DOMAIN talk_groups : talk_groups[j].id = id => i <= j
    ELSE -1

\* a follow decision without the emergency override
ShouldFollowNoOverride(msg) ==
    LET tg == GetTalkGroup(msg.talk_group_id) IN
    \/ /\ tg # -1
       /\ talk_groups[tg].monitored
       /\ talk_groups[tg].priority >= config.priority_threshold
    \/ config.record_all

\* the follow decision of a CHANNEL_GRANT / GROUP_CALL
ShouldFollow(msg) ==
    LET tg == GetTalkGroup(msg.talk_group_id) IN
    \/ config.emergency_override /\ msg.emergency
    \/ /\ tg # -1
       /\ talk_groups[tg].monitored
       /\ talk_groups[tg].priority >= config.priority_threshold
    \/ config.record_all

\* a search for an inactive slot that returns the last one, or -1
FreeSlotHighest ==
    IF \E i \in Slots : ~voice_channels[i].active
    THEN CHOOSE i \in Slots :
            /\ ~voice_channels[i].active
            /\ \A j \in Slots : ~voice_channels[j].active => i >= j
    ELSE -1

\* first inactive slot, or -1
FreeSlot ==
    IF \E i \in Slots : ~voice_channels[i].active
    THEN CHOOSE i \in Slots :
            /\ ~voice_channels[i].active
            /\ \A j \in Slots : ~voice_channels[j].active => i <= j
    ELSE -1

\* a search for an active slot of this talk group that returns the last
\* one, or -1
ReleaseSlotHighest(tgid) ==
    IF \E i \in Slots : voice_channels[i].active
                        /\ voice_channels[i].talk_group_id = tgid
    THEN CHOOSE i \in Slots :
            /\ voice_channels[i].active
            /\ voice_channels[i].talk_group_id = tgid
            /\ \A j \in Slots :
                 (voice_channels[j].active
                  /\ voice_channels[j].talk_group_id = tgid) => i >= j
    ELSE -1

\* first active slot of this talk group, or -1
ReleaseSlot(tgid) ==
    IF \E i \in Slots : voice_channels[i].active
                        /\ voice_channels[i].talk_group_id = tgid
    THEN CHOOSE i \in Slots :
            /\ voice_channels[i].active
            /\ voice_channels[i].talk_group_id = tgid
            /\ \A j \in Slots :
                 (voice_channels[j].active
                  /\ voice_channels[j].talk_group_id = tgid) => i <= j
    ELSE -1

\* the history entry the monitor writes for slot ch at its time t
HistoryEntry(ch, t) ==
    [ timestamp     |-> ch.grant_time,
      talk_group_id |-> ch.talk_group_id,
      frequency     |-> ch.frequency,
      source_id     |-> ch.source_id,
      duration_ms   |-> 2000 * U64Sub(t, ch.grant_time) ]

InitTrunk ==
    /\ now = 0
    /\ running = TRUE
    /\ voice_channels = [ i \in Slots |-> EmptySlot ]
    /\ active_channel_count = 0
    /\ current_channel_idx = -1
    /\ current_frequency = config.control_channel_freq
    /\ history = [ i \in 0 .. (HistorySize - 1) |-> EmptyEntry ]
    /\ history_head = 0
    /\ history_count = 0
    /\ last_control_msg_time = 0
    /\ control_msg_count = 0
    /\ total_calls = 0
    /\ emergency_calls = 0
    /\ encrypted_calls = 0
    /\ talk_groups = << [ id |-> 1000, monitored |-> TRUE, priority |-> 5,
                          call_count |-> 0, last_activity |-> 0 ] >>
    /\ mon_pc = "sleep"
    /\ mon_now = 0
    /\ mon_oob = FALSE

\* the clock advances
Tick ==
    /\ now < MaxTime
    /\ now' = now + 1
    /\ UNCHANGED << running, slotVars, histVars, statVars, monVars >>
    /\ UNCHANGED notTrunk

\* "Update talk group activity": last_activity and call_count of the entry
\* channel_manager_get_talk_group returns
TouchTalkGroup(msg) ==
    LET tg == GetTalkGroup(msg.talk_group_id) IN
    IF tg = -1 THEN talk_groups
    ELSE [ talk_groups EXCEPT ![tg].last_activity = now,
                              ![tg].call_count = @ + 1 ]

\* the slot a followed grant populates
GrantedSlot(msg) ==
    [ frequency     |-> msg.channel_freq,
      talk_group_id |-> msg.talk_group_id,
      source_id     |-> msg.source_id,
      active        |-> TRUE,
      encrypted     |-> msg.encrypted,
      grant_time    |-> now,
      last_update   |-> now ]

\* the grant case following a call whatever its channel_freq
HandleGrantAnyFreq(msg) ==
    /\ total_calls' = total_calls + 1
    /\ emergency_calls' = IF msg.emergency THEN emergency_calls + 1
                          ELSE emergency_calls
    /\ encrypted_calls' = IF msg.encrypted THEN encrypted_calls + 1
                          ELSE encrypted_calls
    /\ IF ShouldFollow(msg) /\ config.auto_follow /\ FreeSlot # -1
       THEN /\ voice_channels' =
                  [ voice_channels EXCEPT ![FreeSlot] = GrantedSlot(msg) ]
            /\ active_channel_count' = active_channel_count + 1
            /\ current_channel_idx' = FreeSlot
            /\ current_frequency' = msg.channel_freq
       ELSE UNCHANGED slotVars

\* case CTRL_MSG_CHANNEL_GRANT / CTRL_MSG_GROUP_CALL
HandleGrant(msg) ==
    /\ total_calls' = total_calls + 1
    /\ emergency_calls' = IF msg.emergency THEN emergency_calls + 1
                          ELSE emergency_calls
    /\ encrypted_calls' = IF msg.encrypted THEN encrypted_calls + 1
                          ELSE encrypted_calls
    /\ IF ShouldFollow(msg) /\ config.auto_follow /\ msg.channel_freq > 0
          /\ FreeSlot # -1
       THEN /\ voice_channels' =
                  [ voice_channels EXCEPT ![FreeSlot] = GrantedSlot(msg) ]
            /\ active_channel_count' = active_channel_count + 1
            /\ current_channel_idx' = FreeSlot
            \* channel_manager_tune_to_channel(mgr, msg->channel_freq)
            /\ current_frequency' = msg.channel_freq
       ELSE UNCHANGED slotVars

\* case CTRL_MSG_CHANNEL_RELEASE
HandleRelease(msg) ==
    LET i == ReleaseSlot(msg.talk_group_id) IN
    /\ UNCHANGED << total_calls, emergency_calls, encrypted_calls >>
    /\ IF i # -1
       THEN /\ voice_channels' = [ voice_channels EXCEPT ![i].active = FALSE ]
            /\ active_channel_count' = active_channel_count - 1
            /\ IF current_channel_idx = i
               THEN /\ current_frequency' = config.control_channel_freq
                    /\ current_channel_idx' = -1
               ELSE UNCHANGED << current_frequency, current_channel_idx >>
       ELSE UNCHANGED slotVars

\* case CTRL_MSG_EMERGENCY
HandleEmergency(msg) ==
    /\ emergency_calls' = emergency_calls + 1
    /\ UNCHANGED << total_calls, encrypted_calls, slotVars >>

\* default:
HandleOther(msg) ==
    UNCHANGED << total_calls, emergency_calls, encrypted_calls, slotVars >>

\* The mutexes channel_manager_process_control_message holds where it calls
\* channel_manager_tune_to_channel: talk_group_lock is released before the
\* switch; the grant case and the release case both make the call between
\* pthread_mutex_lock(&mgr->channel_lock) and its unlock.
HeldAtGrantTune == { "channel_lock" }
HeldAtReleaseTune == { "channel_lock" }

\* whether this message makes the handler retune, in its grant case
GrantTunes(msg) ==
    /\ msg.type \in { "CHANNEL_GRANT", "GROUP_CALL" }
    /\ ShouldFollow(msg) /\ config.auto_follow /\ msg.channel_freq > 0
    /\ FreeSlot # -1

\* whether this message makes the handler retune, in its release case
ReleaseTunes(msg) ==
    /\ msg.type = "CHANNEL_RELEASE"
    /\ ReleaseSlot(msg.talk_group_id) # -1
    /\ current_channel_idx = ReleaseSlot(msg.talk_group_id)

\* channel_manager_process_control_message, called on the producer thread:
\* what it does to the manager
ManagerProcess(msg) ==
    /\ ~mon_oob
    /\ control_msg_count < MaxMsgs
    /\ last_control_msg_time' = now
    /\ control_msg_count' = control_msg_count + 1
    /\ talk_groups' = TouchTalkGroup(msg)
    /\ CASE msg.type \in { "CHANNEL_GRANT", "GROUP_CALL" } -> HandleGrant(msg)
         [] msg.type = "CHANNEL_RELEASE" -> HandleRelease(msg)
         [] msg.type = "EMERGENCY" -> HandleEmergency(msg)
         [] OTHER -> HandleOther(msg)
    /\ tune_locks' = IF GrantTunes(msg) THEN HeldAtGrantTune
                     ELSE IF ReleaseTunes(msg) THEN HeldAtReleaseTune
                     ELSE tune_locks
    /\ UNCHANGED << now, running, histVars, monVars >>
    /\ UNCHANGED notTrunkPdu

\* channel_manager_process_control_message on a message of Messages
ProcessControlMessage(msg) ==
    ManagerProcess(msg) /\ UNCHANGED << pduVars, cbVars >>

\* channel_monitor_thread, top of the loop: read the clock and check for
\* the control-channel timeout
MonitorWake ==
    /\ running
    /\ ~mon_oob
    /\ mon_pc = "sleep"
    /\ mon_now' = now
    /\ last_control_msg_time' =
          IF U64Sub(now, last_control_msg_time) > ControlChannelTimeout
          THEN now ELSE last_control_msg_time
    /\ mon_pc' = "scan"
    /\ UNCHANGED << now, running, slotVars, histVars, control_msg_count,
                    total_calls, emergency_calls, encrypted_calls,
                    talk_groups, mon_oob >>
    /\ UNCHANGED notTrunk

\* whether the monitor retires slot ch at its time t
Expired(ch, t) ==
    ch.active /\ U64Sub(t, ch.last_update) > config.hold_time

\* what the monitor does to an expired slot
TimedOut(ch) == [ ch EXCEPT !.active = FALSE ]

\* the ring step of the monitor's append that leaves history_head in place
NextHeadStuck(head) == head

\* mgr->history_head = (mgr->history_head + 1) % CHANNEL_HISTORY_SIZE
NextHead(head) == (head + 1) % HistorySize

\* the monitor's for loop from index i on, over the slots vc and the history
\* ring st = [history, head, count]; n is the loop bound
RECURSIVE ScanFrom(_, _, _, _)
ScanFrom(i, n, vc, st) ==
    IF i >= n THEN [ vc |-> vc, st |-> st ]
    ELSE IF Expired(vc[i], mon_now)
    THEN ScanFrom(i + 1, n, [ vc EXCEPT ![i] = TimedOut(vc[i]) ],
                  [ history |-> [ st.history EXCEPT ![st.head] =
                                      HistoryEntry(vc[i], mon_now) ],
                    head    |-> NextHead(st.head),
                    count   |-> IF st.count < HistorySize
                                THEN st.count + 1 ELSE st.count ])
    ELSE ScanFrom(i + 1, n, vc, st)

\* the bound of the monitor's for loop
ScanBound == active_channel_count

\* channel_monitor_thread, under channel_lock: retire the expired slots,
\* then sleep.  A loop bound beyond the array reads past voice_channels[].
MonitorScan ==
    /\ ~mon_oob
    /\ mon_pc = "scan"
    /\ LET n == IF ScanBound <= MaxChannels THEN ScanBound ELSE MaxChannels
           r == ScanFrom(0, n, voice_channels,
                         [ history |-> history, head |-> history_head,
                           count |-> history_count ])
       IN /\ voice_channels' = r.vc
          /\ history' = r.st.history
          /\ history_head' = r.st.head
          /\ history_count' = r.st.count
    /\ mon_oob' = (ScanBound > MaxChannels)
    /\ mon_pc' = "sleep"
    /\ UNCHANGED << now, running, active_channel_count, current_channel_idx,
                    current_frequency, statVars, mon_now >>
    /\ UNCHANGED notTrunk

\* channel_manager_start has tuned to the control channel, no mutex held
InitLock == tune_locks = { }

NextTrunk ==
    \/ Tick
    \/ \E msg \in Messages : ProcessControlMessage(msg)
    \/ MonitorWake
    \/ MonitorScan

\* sdr_callback as the channel manager sees it: a buffer is parsed as a
\* control PDU and fed to the manager only while the tuner is on the control
\* frequency (active_demod == control_demod); on any other frequency the
\* buffer takes the voice path and the manager is not touched.  A message is
\* accepted only while the model's clock can still run past its hold time.
SdrCallback ==
    \/ /\ current_frequency = config.control_channel_freq
       /\ now + config.hold_time < MaxTime
       /\ \E msg \in Messages : ProcessControlMessage(msg)
    \/ /\ current_frequency # config.control_channel_freq
       /\ UNCHANGED vars

\* The manager driven by the orchestrator, its threads fairly scheduled
NextOrch ==
    \/ Tick
    \/ SdrCallback
    \/ MonitorWake
    \/ MonitorScan

----------------------------------------------------------------------------
(* Audio ring                                                              *)

RingIndex == 0 .. (RingSize - 1)

\* audio_playback_init: calloc'ed ring, both indices 0
InitRing ==
    /\ ring_buffer = [ i \in RingIndex |-> 0 ]
    /\ ring_write_pos = 0
    /\ ring_read_pos = 0
    /\ written = 0
    /\ delivered = << >>
    /\ dropped = 0
    /\ write_after_read = FALSE

\* Available with the wrap-around branch taken unconditionally
AvailableAlwaysWrapped(w, r) == RingSize - r + w

\* the consumer's "available samples in ring buffer"
Available(w, r) ==
    IF w >= r THEN w - r ELSE RingSize - r + w

\* Overflowed reporting the ring full one sample early
OverflowedEarly(w, r) == (w + 1) % RingSize = r

\* Overflowed never reporting overflow
OverflowedNever(w, r) == FALSE

\* the writer's overflow check after advancing the write index
Overflowed(w, r) == w = r

\* WriteSample advancing the read index without the modulo
WriteSampleNoModulo(st, sample) ==
    LET w == (st.w + 1) % RingSize IN
    [ buf  |-> [ st.buf EXCEPT ![st.w] = sample ],
      w    |-> w,
      r    |-> IF Overflowed(w, st.r) THEN st.r + 1 ELSE st.r,
      drop |-> IF Overflowed(w, st.r) THEN st.drop + 1 ELSE st.drop ]

\* one iteration of audio_playback_write's loop: store the sample, advance
\* the write index, and on overflow drop the oldest sample
WriteSample(st, sample) ==
    LET w == (st.w + 1) % RingSize IN
    [ buf  |-> [ st.buf EXCEPT ![st.w] = sample ],
      w    |-> w,
      r    |-> IF Overflowed(w, st.r) THEN (st.r + 1) % RingSize ELSE st.r,
      drop |-> IF Overflowed(w, st.r) THEN st.drop + 1 ELSE st.drop ]

\* audio_playback_write's loop over samples[i .. count-1]
RECURSIVE WriteLoop(_, _, _)
WriteLoop(st, samples, i) ==
    IF i > Len(samples) THEN st
    ELSE WriteLoop(WriteSample(st, samples[i]), samples, i + 1)

\* audio_playback_write(playback, samples, count), count > 0, under
\* buffer_mutex.  The samples written are numbered in write order.
AudioPlaybackWrite(count) ==
    /\ written + count <= MaxSamples
    /\ LET samples == [ k \in 1 .. count |-> written + k ]
           st == WriteLoop([ buf |-> ring_buffer, w |-> ring_write_pos,
                             r |-> ring_read_pos, drop |-> dropped ],
                           samples, 1)
       IN /\ ring_buffer' = st.buf
          /\ ring_write_pos' = st.w
          /\ ring_read_pos' = st.r
          /\ dropped' = st.drop
    /\ written' = written + count
    /\ write_after_read' = (write_after_read \/ delivered # << >>)
    /\ UNCHANGED delivered
    /\ UNCHANGED notRing

\* the chunk playback_thread_func copies out of the ring from read index r
Chunk(r) == [ i \in 1 .. ChunkSize |-> ring_buffer[(r + i - 1) % RingSize] ]

\* playback_thread_func with a chunk available: copy it to temp_buffer
\* under buffer_mutex and hand it to snd_pcm_writei
ReadChunk ==
    /\ Available(ring_write_pos, ring_read_pos) >= ChunkSize
    /\ delivered' = delivered \o Chunk(ring_read_pos)
    /\ ring_read_pos' = (ring_read_pos + ChunkSize) % RingSize
    /\ UNCHANGED << ring_buffer, ring_write_pos, written, dropped,
                    write_after_read >>

\* playback_thread_func, one pass of the loop with a chunk available
PlaybackChunk == ReadChunk /\ UNCHANGED notRing

\* playback_thread_func, one pass of the loop without a chunk: usleep
PlaybackSleep ==
    /\ Available(ring_write_pos, ring_read_pos) < ChunkSize
    /\ UNCHANGED vars

NextRing ==
    \/ \E count \in 1 .. MaxCount : AudioPlaybackWrite(count)
    \/ PlaybackChunk
    \/ PlaybackSleep

----------------------------------------------------------------------------
(* The TEA1 cipher (tea1_crypto.c). A 32-bit word is the tuple of its four *)
(* bytes, most significant first.                                          *)

\* TEA1_BLOCK_SIZE
Tea1BlockSize == 8
\* the number of rounds and of round keys
Tea1Rounds == 32
\* the two 16-bit halves of the round constant 0x9E3779B9
DeltaHi == 40503
DeltaLo == 31161

\* TEA1_SBOX[b] is TEA1_SBOX[b + 1] here
TEA1_SBOX == <<
     99, 124, 119, 123, 242, 107, 111, 197,  48,   1, 103,  43, 254, 215, 171, 118,
    202, 130, 201, 125, 250,  89,  71, 240, 173, 212, 162, 175, 156, 164, 114, 192,
    183, 253, 147,  38,  54,  63, 247, 204,  52, 165, 229, 241, 113, 216,  49,  21,
      4, 199,  35, 195,  24, 150,   5, 154,   7,  18, 128, 226, 235,  39, 178, 117,
      9, 131,  44,  26,  27, 110,  90, 160,  82,  59, 214, 179,  41, 227,  47, 132,
     83, 209,   0, 237,  32, 252, 177,  91, 106, 203, 190,  57,  74,  76,  88, 207,
    208, 239, 170, 251,  67,  77,  51, 133,  69, 249,   2, 127,  80,  60, 159, 168,
     81, 163,  64, 143, 146, 157,  56, 245, 188, 182, 218,  33,  16, 255, 243, 210,
    205,  12,  19, 236,  95, 151,  68,  23, 196, 167, 126,  61, 100,  93,  25, 115,
     96, 129,  79, 220,  34,  42, 144, 136,  70, 238, 184,  20, 222,  94,  11, 219,
    224,  50,  58,  10,  73,   6,  36,  92, 194, 211, 172,  98, 145, 149, 228, 121,
    231, 200,  55, 109, 141, 213,  78, 169, 108,  86, 244, 234, 101, 122, 174,   8,
    186, 120,  37,  46,  28, 166, 180, 198, 232, 221, 116,  31,  75, 189, 139, 138,
    112,  62, 181, 102,  72,   3, 246,  14,  97,  53,  87, 185, 134, 193,  29, 158,
    225, 248, 152,  17, 105, 217, 142, 148, 155,  30, 135, 233, 206,  85,  40, 223,
    140, 161, 137,  13, 191, 230,  66, 104,  65, 153,  45,  15, 176,  84, 187,  22 >>

Bytes == 0 .. 255
Words == [ 1 .. 4 -> Bytes ]

\* a ^ b on n-bit values
XorBits[n \in 0 .. 8, a \in Bytes, b \in Bytes] ==
    IF n = 0 THEN 0
    ELSE ((a + b) % 2) + 2 * XorBits[n - 1, a \div 2, b \div 2]

XorWord[x \in Words, y \in Words] == [ i \in 1 .. 4 |-> XorBits[8, x[i], y[i]] ]

\* (rk << 1) | (rk >> 31)
Rotl1[w \in Words] ==
    [ i \in 1 .. 4 |-> ((w[i] * 2) % 256) + (w[(i % 4) + 1] \div 128) ]

\* (data << 7) | (data >> 25)
Rotl7[w \in Words] ==
    [ i \in 1 .. 4 |-> ((w[i] % 2) * 128) + (w[(i % 4) + 1] \div 2) ]

\* the bytes of a 32-bit value, as test_key_candidate stores a candidate
WordOf(n) == << (n \div 16777216) % 256, (n \div 65536) % 256,
                (n \div 256) % 256, n % 256 >>

\* i * 0x9E3779B9 in 32-bit unsigned arithmetic
RoundConst(i) ==
    LET lo == DeltaLo * i
        hi == (DeltaHi * i + (lo \div 65536)) % 65536
    IN  << hi \div 256, hi % 256, (lo % 65536) \div 256, lo % 256 >>

\* tea1_extract_reduced_key: the first four bytes of the 80-bit key
Tea1ExtractReducedKey(full_key) == SubSeq(full_key, 1, 4)

\* tea1_key_schedule in vulnerability mode: round_keys[i], ..., round_keys[31]
Tea1KeySchedule[i \in 0 .. Tea1Rounds, rk \in Words] ==
    IF i = Tea1Rounds THEN << >>
    ELSE << XorWord[rk, RoundConst(i)] >> \o Tea1KeySchedule[i + 1, Rotl1[rk]]

\* the S-box step of tea1_round indexing the table with the low bit of
\* each byte dropped
SubBytesPairs(data) ==
    [ i \in 1 .. 4 |-> TEA1_SBOX[2 * (data[i] \div 2) + 1] ]

\* bytes[i] = TEA1_SBOX[bytes[i]] for the four bytes of data
SubBytes(data) == [ i \in 1 .. 4 |-> TEA1_SBOX[data[i] + 1] ]

\* tea1_round: S-box on every byte, XOR with the round key, rotate left 7
Tea1Round[data \in Words, round_key \in Words] ==
    Rotl7[XorWord[SubBytes(data), round_key]]

\* internal.state[0 .. 1], the round counter and the round keys of
\* tea1_decrypt_block
States == Words \X Words
Rounds == -1 .. (Tea1Rounds - 1)
Schedules == Seq(Words)
Blocks == [ 1 .. Tea1BlockSize -> Bytes ]

\* the reverse-round loop of tea1_decrypt_block, from `round` down to 0
DecryptRounds[round \in Rounds, state \in States, round_keys \in Schedules] ==
    IF round < 0 THEN state
    ELSE DecryptRounds[round - 1,
                       << Tea1Round[state[2], round_keys[round + 1]],
                          state[1] >>,
                       round_keys]

\* tea1_decrypt_block of a context in vulnerability mode
Tea1DecryptBlock[reduced_key \in Words, input \in Blocks] ==
    LET st == DecryptRounds[Tea1Rounds - 1,
                            << SubSeq(input, 1, 4), SubSeq(input, 5, 8) >>,
                            Tea1KeySchedule[0, reduced_key]]
    IN  st[1] \o st[2]

\* The 80-bit keys a context is initialised with, and the blocks it is
\* handed
CipherKeys ==
    { << 0, 0, 0, 0, 0, 0, 0, 0, 0, 0 >>,
      << 0, 0, 0, 42, 0, 0, 0, 0, 0, 0 >>,
      << 222, 173, 190, 239, 1, 2, 3, 4, 5, 6 >>,
      << 255, 255, 255, 255, 255, 255, 255, 255, 255, 255 >> }
PlainBlocks ==
    { << 0, 0, 0, 0, 0, 0, 0, 0 >>, << 1, 2, 3, 4, 5, 6, 7, 8 >>,
      << 85, 85, 85, 85, 85, 85, 85, 85 >>,
      << 255, 255, 255, 255, 255, 255, 255, 255 >>,
      << 0, 0, 0, 0, 0, 0, 0, 1 >>, << 128, 0, 0, 0, 0, 0, 0, 0 >>,
      << 222, 173, 190, 239, 202, 254, 186, 190 >>,
      << 0, 0, 0, 1, 0, 0, 0, 0 >> }

\* The inverse of tea1_round for a fixed round key: rotate right 7, XOR
\* with the round key, inverse S-box on every byte
InvSbox == [ b \in Bytes |-> CHOOSE x \in Bytes : TEA1_SBOX[x + 1] = b ]
Rotr7[w \in Words] ==
    [ i \in 1 .. 4 |-> ((w[((i + 2) % 4) + 1] * 2) % 256) + (w[i] \div 128) ]
InvRound[data \in Words, round_key \in Words] ==
    [ i \in 1 .. 4 |-> InvSbox[XorWord[Rotr7[data], round_key][i]] ]

\* the 32 decryption rounds undone, last one first: rounds `round` to 31
EncryptRounds[round \in 0 .. Tea1Rounds, state \in States, keys \in Schedules] ==
    IF round = Tea1Rounds THEN state
    ELSE EncryptRounds[round + 1,
                       << state[2], InvRound[state[1], keys[round + 1]] >>,
                       keys]

\* Encrypt(P, R): the block the 32 decryption rounds take to P under the
\* vulnerable key schedule of R
Encrypt[reduced_key \in Words, input \in Blocks] ==
    LET st == EncryptRounds[0,
                            << SubSeq(input, 1, 4), SubSeq(input, 5, 8) >>,
                            Tea1KeySchedule[0, reduced_key]]
    IN  st[1] \o st[2]

\* the encryption of every plain block under every key
ReducedKeys == { Tea1ExtractReducedKey(key) : key \in CipherKeys }
Encrypted == [ r \in ReducedKeys, p \in PlainBlocks |-> Encrypt[r, p] ]

\* the blocks handed to tea1_decrypt_block: the plain blocks themselves and
\* their encryptions under the keys
CipherBlocks ==
    PlainBlocks \cup { Encrypted[r, p] : r \in ReducedKeys, p \in PlainBlocks }

InitCipher ==
    /\ tea1_reduced_key = << 0, 0, 0, 0 >>
    /\ tea1_input = << >>
    /\ tea1_output = << >>

\* tea1_init with use_vulnerability set, on a context that has decrypted
\* nothing yet
Tea1Init ==
    /\ \E key \in CipherKeys :
         tea1_reduced_key' = Tea1ExtractReducedKey(key)
    /\ tea1_input' = << >>
    /\ tea1_output' = << >>
    /\ UNCHANGED notCipher

\* tea1_decrypt_block(ctx, input, output)
Tea1DecryptBlockCall ==
    /\ \E input \in CipherBlocks :
         /\ tea1_input' = input
         /\ tea1_output' = Tea1DecryptBlock[tea1_reduced_key, input]
    /\ UNCHANGED tea1_reduced_key
    /\ UNCHANGED notCipher

NextCipher ==
    \/ Tea1Init
    \/ Tea1DecryptBlockCall

----------------------------------------------------------------------------
(* A TEA1 context with its full key (tea1_crypto.c): tea1_init, the key    *)
(* schedule in both modes, tea1_decrypt_block and tea1_decrypt_stream.     *)
(* Two contexts are initialised together and given the same calls.         *)

\* (k1 >> 1) | (k1 << 31)
Rotr1[w \in Words] ==
    [ i \in 1 .. 4 |-> (w[i] \div 2) + ((w[((i + 2) % 4) + 1] % 2) * 128) ]

\* the else branch of tea1_key_schedule: round_keys[i], ..., round_keys[31]
FullKeySchedule[i \in 0 .. Tea1Rounds, k0 \in Words, k1 \in Words, k2 \in Words] ==
    IF i = Tea1Rounds THEN << >>
    ELSE << XorWord[XorWord[XorWord[k0, k1], k2], RoundConst(i)] >>
         \o FullKeySchedule[i + 1, Rotl1[k0], Rotr1[k1], k2]

\* tea1_key_schedule that never takes the vulnerability branch
KeyScheduleFullOnly(ctx) ==
    FullKeySchedule[0, SubSeq(ctx.key, 1, 4), SubSeq(ctx.key, 5, 8),
                    << 0, 0, ctx.key[9], ctx.key[10] >>]

\* tea1_key_schedule: internal->round_keys of a context
KeySchedule(ctx) ==
    IF ctx.vulnerability_mode
    THEN Tea1KeySchedule[0, ctx.reduced_key]
    ELSE FullKeySchedule[0, SubSeq(ctx.key, 1, 4), SubSeq(ctx.key, 5, 8),
                         << 0, 0, ctx.key[9], ctx.key[10] >>]

\* tea1_decrypt_block(ctx, input, output): the eight bytes stored
DecryptBlock(ctx, input) ==
    LET st == DecryptRounds[Tea1Rounds - 1,
                            << SubSeq(input, 1, 4), SubSeq(input, 5, 8) >>,
                            KeySchedule(ctx)]
    IN  st[1] \o st[2]

\* an update of ctx->iv that takes the block just decrypted
NextIvPlain(block, plain) == plain

\* "Update IV": memcpy(ctx->iv, input + i * TEA1_BLOCK_SIZE, TEA1_BLOCK_SIZE)
NextIv(block, plain) == block

\* tea1_decrypt_stream from block i on: the bytes stored through output and
\* ctx->iv afterwards; the bytes past the last whole block are not stored
RECURSIVE DecryptStreamFrom(_, _, _, _)
DecryptStreamFrom(ctx, input, i, iv) ==
    IF i >= Len(input) \div Tea1BlockSize THEN [ output |-> << >>, iv |-> iv ]
    ELSE LET block == SubSeq(input, i * Tea1BlockSize + 1,
                             (i + 1) * Tea1BlockSize)
             plain == CHOOSE d \in { DecryptBlock(ctx, block) } : TRUE
             rest == DecryptStreamFrom(ctx, input, i + 1, NextIv(block, plain))
         IN  [ output |-> [ j \in 1 .. Tea1BlockSize |->
                              XorBits[8, plain[j], iv[j]] ] \o rest.output,
               iv |-> rest.iv ]

\* memset(ctx->iv, 0, TEA1_BLOCK_SIZE)
ZeroIv == [ j \in 1 .. Tea1BlockSize |-> 0 ]

\* tea1_init(ctx, key, use_vulnerability) on a context that held `before`
Tea1InitCtx(before, key, use_vulnerability) ==
    [ key |-> key, iv |-> ZeroIv, vulnerability_mode |-> use_vulnerability,
      reduced_key |-> IF use_vulnerability THEN Tea1ExtractReducedKey(key)
                      ELSE before.reduced_key ]

\* The keys of the two contexts: two that agree on bytes 0 .. 3 and differ
\* in bytes 4 .. 9, and one that differs in byte 3
PairKeys ==
    { << 0, 0, 0, 42, 0, 0, 0, 0, 0, 0 >>,
      << 0, 0, 0, 42, 1, 2, 3, 4, 128, 255 >>,
      << 0, 0, 0, 43, 0, 0, 0, 0, 0, 0 >> }
\* the blocks handed to tea1_decrypt_block
PairBlocks ==
    { << 0, 0, 0, 0, 0, 0, 0, 0 >>, << 1, 2, 3, 4, 5, 6, 7, 8 >> }
\* the buffers handed to tea1_decrypt_stream: two whole blocks, and the 18
\* bytes sdr_callback packs a 137-bit codec frame into
PairStreams ==
    { << 1, 2, 3, 4, 5, 6, 7, 8, 85, 85, 85, 85, 85, 85, 85, 85 >>,
      << 255, 0, 255, 0, 255, 0, 255, 0, 1, 2, 3, 4, 5, 6, 7, 8, 9, 128 >> }
Contexts == { "a", "b" }

\* a static tea1_context_t
InitPair ==
    /\ pair_ctx = [ c \in Contexts |->
                      [ key |-> << 0, 0, 0, 0, 0, 0, 0, 0, 0, 0 >>,
                        iv |-> ZeroIv, vulnerability_mode |-> FALSE,
                        reduced_key |-> << 0, 0, 0, 0 >> ] ]
    /\ pair_input = << >>
    /\ pair_output = [ c \in Contexts |-> << >> ]

\* tea1_init on both contexts, each with its key, in the same mode
PairInit ==
    /\ \E ka \in PairKeys, kb \in PairKeys, mode \in BOOLEAN :
         pair_ctx' = [ c \in Contexts |->
                         Tea1InitCtx(pair_ctx[c], IF c = "a" THEN ka ELSE kb,
                                     mode) ]
    /\ pair_input' = << >>
    /\ pair_output' = [ c \in Contexts |-> << >> ]
    /\ UNCHANGED notPair

\* tea1_decrypt_block on both contexts with the same input
PairDecryptBlock ==
    /\ \E input \in PairBlocks :
         /\ pair_input' = input
         /\ pair_output' = [ c \in Contexts |->
                               DecryptBlock(pair_ctx[c], input) ]
    /\ UNCHANGED pair_ctx
    /\ UNCHANGED notPair

\* tea1_decrypt_stream on both contexts with the same input
PairDecryptStream ==
    /\ \E input \in PairStreams :
         \E r \in { [ c \in Contexts |->
                        DecryptStreamFrom(pair_ctx[c], input, 0,
                                          pair_ctx[c].iv) ] } :
            /\ pair_input' = input
            /\ pair_output' = [ c \in Contexts |-> r[c].output ]
            /\ pair_ctx' = [ c \in Contexts |->
                               [ pair_ctx[c] EXCEPT !.iv = r[c].iv ] ]
    /\ UNCHANGED notPair

NextPair ==
    \/ PairInit
    \/ PairDecryptBlock
    \/ PairDecryptStream

----------------------------------------------------------------------------
(* tea1_decrypt_stream (tea1_crypto.c) called again and again on one       *)
(* context, each time with an output buffer the caller has filled.         *)

\* the key of the context
StreamKey == << 0, 0, 0, 42, 1, 2, 3, 4, 128, 255 >>

\* the inputs of a call: one block, two blocks, and the 18 bytes
\* sdr_callback packs a codec frame into
StreamInputs ==
    { << 1, 2, 3, 4, 5, 6, 7, 8 >>,
      << 85, 85, 85, 85, 85, 85, 85, 85, 1, 2, 3, 4, 5, 6, 7, 8 >>,
      << 255, 0, 255, 0, 255, 0, 255, 0, 1, 2, 3, 4, 5, 6, 7, 8, 9, 128 >> }

\* what the caller's output buffer of len bytes holds before the call
Filled(len) == [ j \in 1 .. len |-> 170 ]

\* the bytes of the whole blocks of an input
WholeBlocks(input) ==
    SubSeq(input, 1, (Len(input) \div Tea1BlockSize) * Tea1BlockSize)

\* the output buffer after tea1_decrypt_stream has stored `stored` in it
OutputAfter(before, stored) ==
    [ j \in 1 .. Len(before) |->
        IF j <= Len(stored) THEN stored[j] ELSE before[j] ]

\* a static tea1_context_t
InitStream ==
    /\ stream_ctx = [ key |-> << 0, 0, 0, 0, 0, 0, 0, 0, 0, 0 >>,
                      iv |-> ZeroIv, vulnerability_mode |-> FALSE,
                      reduced_key |-> << 0, 0, 0, 0 >> ]
    /\ stream_calls = 0
    /\ stream_input = << >>
    /\ stream_output = << >>
    /\ stream_call = [ done |-> FALSE, iv |-> ZeroIv, input |-> << >>,
                       before |-> << >>, after |-> << >> ]

\* tea1_init on the context
StreamInit ==
    /\ \E mode \in BOOLEAN :
         stream_ctx' = Tea1InitCtx(stream_ctx, StreamKey, mode)
    /\ stream_calls' = 0
    /\ stream_input' = << >>
    /\ stream_output' = << >>
    /\ stream_call' = [ done |-> FALSE, iv |-> ZeroIv, input |-> << >>,
                        before |-> << >>, after |-> << >> ]
    /\ UNCHANGED notStream

\* tea1_decrypt_stream(ctx, input, output, len)
StreamDecrypt ==
    /\ stream_calls < MaxStreamCalls
    /\ stream_calls' = stream_calls + 1
    /\ \E input \in StreamInputs :
         \E r \in { DecryptStreamFrom(stream_ctx, input, 0, stream_ctx.iv) } :
            /\ stream_ctx' = [ stream_ctx EXCEPT !.iv = r.iv ]
            /\ stream_input' = stream_input \o WholeBlocks(input)
            /\ stream_output' = stream_output \o r.output
            /\ stream_call' =
                  [ done |-> TRUE, iv |-> stream_ctx.iv, input |-> input,
                    before |-> Filled(Len(input)),
                    after |-> OutputAfter(Filled(Len(input)), r.output) ]
    /\ UNCHANGED notStream

NextStream ==
    \/ StreamInit
    \/ StreamDecrypt

----------------------------------------------------------------------------
(* TEA1 key recovery (tea1_crack.c)                                        *)

\* the 80-bit key test_key_candidate and tea1_brute_force_32bit build
KeyOfCandidate(k) == WordOf(k) \o << 0, 0, 0, 0, 0, 0 >>

\* test_key_candidate
TestKeyCandidate(k, c, p, len) ==
    LET compare_len == IF len < Tea1BlockSize THEN len ELSE Tea1BlockSize
    IN  \E decrypted \in { Tea1DecryptBlock[
                                Tea1ExtractReducedKey(KeyOfCandidate(k)), c] } :
            SubSeq(decrypted, 1, compare_len) = SubSeq(p, 1, compare_len)

\* The inputs of a call: two ciphertext blocks; as known plaintext, what a
\* key of the budget, or the first key past it, decrypts the block to, or
\* the block itself; a length of a block or of half a block; three result
\* contexts.
Ciphertexts == { << 0, 0, 0, 0, 0, 0, 0, 0 >>, << 1, 2, 3, 4, 5, 6, 7, 8 >> }
Plaintexts(c) ==
    { Tea1DecryptBlock[WordOf(k), c] : k \in 0 .. TestLimit } \cup { c }
Lengths == { Tea1BlockSize \div 2, Tea1BlockSize }
PriorKeys == { WordOf(0), WordOf(1), << 222, 173, 190, 239 >> }

InitCrack ==
    /\ crack_pc = "idle"
    /\ ciphertext = << 0, 0, 0, 0, 0, 0, 0, 0 >>
    /\ known_plaintext = << 0, 0, 0, 0, 0, 0, 0, 0 >>
    /\ plaintext_len = 0
    /\ candidate = 0
    /\ keys_tested = 0
    /\ found_key = 0
    /\ success = FALSE
    /\ ctx_reduced_key = WordOf(0)
    /\ crack_ret = FALSE

\* tea1_crack_key up to the first test of the brute-force loop
Tea1CrackKey ==
    /\ crack_pc = "idle"
    /\ \E c \in Ciphertexts, len \in Lengths, prior \in PriorKeys :
         \E p \in Plaintexts(c) :
            /\ ciphertext' = c
            /\ known_plaintext' = p
            /\ plaintext_len' = len
            /\ ctx_reduced_key' = prior
            /\ IF len < Tea1BlockSize
               THEN crack_pc' = "done"
               ELSE crack_pc' = "loop"
    /\ crack_ret' = FALSE
    /\ candidate' = 0
    /\ keys_tested' = 0
    /\ found_key' = 0
    /\ success' = FALSE
    /\ UNCHANGED notCrack

\* tea1_brute_force_32bit: one pass of the loop
BruteForceStep ==
    /\ crack_pc = "loop"
    /\ candidate < TestLimit
    /\ keys_tested' = keys_tested + 1
    /\ IF TestKeyCandidate(candidate, ciphertext, known_plaintext,
                           plaintext_len)
       THEN /\ found_key' = candidate
            /\ success' = TRUE
            /\ crack_pc' = "report"
            /\ UNCHANGED candidate
       ELSE /\ candidate' = candidate + 1
            /\ UNCHANGED << found_key, success, crack_pc >>
    /\ UNCHANGED << ciphertext, known_plaintext, plaintext_len,
                    ctx_reduced_key, crack_ret >>
    /\ UNCHANGED notCrack

\* tea1_brute_force_32bit: the loop ends with the budget spent
BruteForceExhausted ==
    /\ crack_pc = "loop"
    /\ candidate >= TestLimit
    /\ crack_pc' = "report"
    /\ UNCHANGED << ciphertext, known_plaintext, plaintext_len, candidate,
                    keys_tested, found_key, success, ctx_reduced_key,
                    crack_ret >>
    /\ UNCHANGED notCrack

\* tea1_brute_force_32bit after the loop, and the return of tea1_crack_key
Tea1CrackReturn ==
    /\ crack_pc = "report"
    /\ ctx_reduced_key' =
           IF success
           THEN Tea1ExtractReducedKey(KeyOfCandidate(found_key))
           ELSE ctx_reduced_key
    /\ crack_ret' = (ctx_reduced_key' # WordOf(0))
    /\ crack_pc' = "done"
    /\ UNCHANGED << ciphertext, known_plaintext, plaintext_len, candidate,
                    keys_tested, found_key, success >>
    /\ UNCHANGED notCrack

NextCrack ==
    \/ Tea1CrackKey
    \/ BruteForceStep
    \/ BruteForceExhausted
    \/ Tea1CrackReturn

----------------------------------------------------------------------------
(* Control-channel PDU parser (control_channel.c) and the control path of  *)
(* sdr_callback (main.c).  A bit vector is a sequence of 0s and 1s;        *)
(* bits[i] of the code is bits[i + 1] here.                                *)

\* the least bit_count decode_control_channel_data accepts
MinPduBits == 64

\* ctrl_message_t with all its fields
CtrlMsg(type, tg, src, dst, freq, enc, emer, ts) ==
    [ type |-> type, talk_group_id |-> tg, source_id |-> src,
      dest_id |-> dst, channel_freq |-> freq, encrypted |-> enc,
      emergency |-> emer, timestamp |-> ts ]

\* bytes[] as decode_control_channel_data fills it: bit i of the vector is
\* bit 7 - (i % 8) of byte i / 8
BitsToBytes(bits) ==
    [ b \in 0 .. (((Len(bits) + 7) \div 8) - 1) |->
        LET bit(j) == IF 8 * b + j < Len(bits) /\ bits[8 * b + j + 1] # 0
                      THEN 1 ELSE 0
        IN  128 * bit(0) + 64 * bit(1) + 32 * bit(2) + 16 * bit(3)
            + 8 * bit(4) + 4 * bit(5) + 2 * bit(6) + bit(7) ]

\* extract_bits numbering the bits of a byte from the least significant end
DataBitLsbFirst(data, n) == (data[n \div 8] \div (2 ^ (n % 8))) % 2

\* data[byte_idx] & (1 << bit_idx) of extract_bits, for bit number n
DataBit(data, n) == (data[n \div 8] \div (2 ^ (7 - (n % 8)))) % 2

\* extract_bits: num_bits bits from start_bit, most significant first
ExtractBits(data, start_bit, num_bits) ==
    LET result[i \in 0 .. num_bits] ==
            IF i = 0 THEN 0
            ELSE 2 * result[i - 1] + DataBit(data, start_bit + i - 1)
    IN  result[num_bits]

\* the switch of decode_control_channel_data on a message memset to zero,
\* stamped and tagged CTRL_MSG_UNKNOWN
DecodePdu(bytes, t) ==
    LET pdu_type == ExtractBits(bytes, 0, 8)
        tg8 == ExtractBits(bytes, 8, 16)
        tg32 == ExtractBits(bytes, 32, 16)
        src8 == ExtractBits(bytes, 8, 24)
        src24 == ExtractBits(bytes, 24, 24)
    IN  CASE pdu_type = 1 ->
               [ ok |-> TRUE,
                 msg |-> CtrlMsg("CHANNEL_GRANT", tg8, src24, 0,
                                 420000000 + ExtractBits(bytes, 48, 12) * 25000,
                                 ExtractBits(bytes, 60, 1) # 0,
                                 ExtractBits(bytes, 61, 1) # 0, t) ]
          [] pdu_type = 2 ->
               [ ok |-> TRUE,
                 msg |-> CtrlMsg("CHANNEL_RELEASE", tg8, 0, 0, 0, FALSE,
                                 FALSE, t) ]
          [] pdu_type = 3 ->
               [ ok |-> TRUE,
                 msg |-> CtrlMsg("GROUP_CALL", tg8, src24, 0, 0, FALSE,
                                 ExtractBits(bytes, 48, 1) # 0, t) ]
          [] pdu_type = 4 ->
               [ ok |-> TRUE,
                 msg |-> CtrlMsg("UNIT_TO_UNIT", 0, src8,
                                 ExtractBits(bytes, 32, 24), 0,
                                 ExtractBits(bytes, 56, 1) # 0, FALSE, t) ]
          [] pdu_type = 5 ->
               [ ok |-> TRUE,
                 msg |-> CtrlMsg("REGISTRATION", tg32, src8, 0, 0, FALSE,
                                 FALSE, t) ]
          [] pdu_type = 6 ->
               [ ok |-> TRUE,
                 msg |-> CtrlMsg("EMERGENCY", tg32, src8, 0, 0, FALSE, TRUE,
                                 t) ]
          [] pdu_type = 7 ->
               [ ok |-> TRUE,
                 msg |-> CtrlMsg("AFFILIATION", tg32, src8, 0, 0, FALSE,
                                 FALSE, t) ]
          [] pdu_type = 8 ->
               [ ok |-> TRUE,
                 msg |-> CtrlMsg("STATUS", 0, src8, 0, 0, FALSE, FALSE, t) ]
          [] OTHER ->
               [ ok |-> FALSE,
                 msg |-> CtrlMsg("UNKNOWN", 0, 0, 0, 0, FALSE, FALSE, t) ]

\* decode_control_channel_data(bits, bit_count, msg) at time t: what it
\* returns and what *msg holds afterwards; `before` is what *msg held
DecodeControlChannelData(bits, before, t) ==
    IF Len(bits) < MinPduBits
    THEN [ ok |-> FALSE, msg |-> before ]
    ELSE CHOOSE d \in { DecodePdu(bytes, t) :
                           bytes \in { BitsToBytes(bits) } } : TRUE

\* The fields of a PDU to put on the air: its type byte, talk group,
\* source, destination, 12-bit channel slot and the two flags (0 or 1)
Pdu(type, tg, src, dst, slot, enc, emer) ==
    [ pdu_type |-> type, talk_group_id |-> tg, source_id |-> src,
      dest_id |-> dst, slot |-> slot, encrypted |-> enc, emergency |-> emer ]

\* the bit fields of a PDU, << value, first bit, width >>, at the offsets the
\* decoder reads them from
Layout(f) ==
    { << f.pdu_type, 0, 8 >> } \cup
    CASE f.pdu_type = 1 ->
           { << f.talk_group_id, 8, 16 >>, << f.source_id, 24, 24 >>,
             << f.slot, 48, 12 >>, << f.encrypted, 60, 1 >>,
             << f.emergency, 61, 1 >> }
      [] f.pdu_type = 2 -> { << f.talk_group_id, 8, 16 >> }
      [] f.pdu_type = 3 ->
           { << f.talk_group_id, 8, 16 >>, << f.source_id, 24, 24 >>,
             << f.emergency, 48, 1 >> }
      [] f.pdu_type = 4 ->
           { << f.source_id, 8, 24 >>, << f.dest_id, 32, 24 >>,
             << f.encrypted, 56, 1 >> }
      [] f.pdu_type \in { 5, 6, 7 } ->
           { << f.source_id, 8, 24 >>, << f.talk_group_id, 32, 16 >> }
      [] f.pdu_type = 8 -> { << f.source_id, 8, 24 >> }
      [] OTHER -> { }

\* the fields packed most significant bit first into MinPduBits bits
Pack(f) ==
    [ k \in 1 .. MinPduBits |->
        IF \E fld \in Layout(f) :
              /\ k - 1 \in fld[2] .. (fld[2] + fld[3] - 1)
              /\ (fld[1] \div (2 ^ (fld[2] + fld[3] - k))) % 2 = 1
        THEN 1 ELSE 0 ]

\* a bit vector cut or zero-padded to n bits
WithLength(bits, n) ==
    [ k \in 1 .. n |-> IF k <= Len(bits) THEN bits[k] ELSE 0 ]

\* The bursts the control demodulator hands to sdr_callback: grants, one of
\* them with the highest slot number, a release, an emergency, a
\* registration, a group call and a PDU type the decoder does not know,
\* each as demodulated in full, with trailing bits, or cut short.
AirPdus ==
    { Pdu(1, 1000, 77, 0, 1, 0, 0), Pdu(1, 2000, 79, 0, 2, 1, 1),
      Pdu(1, 1000, 77, 0, 4095, 0, 0),
      Pdu(2, 1000, 0, 0, 0, 0, 0), Pdu(6, 2000, 79, 0, 0, 0, 0),
      Pdu(5, 1000, 77, 0, 0, 0, 0), Pdu(9, 1000, 77, 0, 0, 0, 0),
      Pdu(3, 2000, 79, 0, 0, 0, 1) }
BurstLengths == { 63, 64, 72 }

\* a group call for the monitored talk group whose bits 48 to 61 are all
\* set: the bits of a grant for slot 4095 under the type byte 0x03
GroupCallOverGrant ==
    [ Pack(Pdu(1, 1000, 77, 0, 4095, 1, 1)) EXCEPT ![7] = 1 ]

AirBits ==
    { WithLength(bits, n) :
        bits \in { Pack(f) : f \in AirPdus } \cup { GroupCallOverGrant },
        n \in BurstLengths }

\* What the uninitialised local ctrl_msg of sdr_callback may hold
StackGarbage ==
    { CtrlMsg("UNKNOWN", 0, 0, 0, 0, FALSE, FALSE, 0),
      CtrlMsg("CHANNEL_GRANT", 1000, 77, 0, 420025000, FALSE, FALSE, 0) }

InitPdu ==
    /\ cb_bits = << >>
    /\ ctrl_msg = CtrlMsg("UNKNOWN", 0, 0, 0, 0, FALSE, FALSE, 0)
    /\ decode_ok = FALSE

\* decode_control_channel_data on every burst and every prior content of
\* the message, at time 0
AirDecoded ==
    { [ bits |-> bits,
        result |-> DecodeControlChannelData(bits, garbage, 0) ] :
        bits \in AirBits, garbage \in StackGarbage }

\* the same call at time t: msg->timestamp = get_timestamp_us() is reached
\* once the length check has passed
StampedAt(call, t) ==
    IF Len(call.bits) < MinPduBits THEN call.result
    ELSE [ call.result EXCEPT !.msg.timestamp = t ]

\* sdr_callback, lines 110-117, for a burst detected by the control
\* demodulator: decode it and, on success, hand it to the channel manager
ControlBurst ==
    /\ current_frequency = config.control_channel_freq
    /\ \E call \in AirDecoded :
         \E d \in { StampedAt(call, now) } :
         /\ cb_bits' = call.bits
         /\ ctrl_msg' = d.msg
         /\ decode_ok' = d.ok
         /\ IF d.ok THEN ManagerProcess(d.msg)
            ELSE UNCHANGED << trunkVars, notTrunkPdu, lockVars >>
    /\ UNCHANGED cbVars

\* The fields the decoder is exercised with, every known type and two
\* unknown ones over the corner values of each field
PduTypes == 0 .. 9
FieldValues ==
    [ talk_group_id : { 0, 1000, 65535 }, source_id : { 0, 77, 16777215 },
      dest_id : { 0, 16777215 }, slot : { 0, 1, 4095 },
      encrypted : { 0, 1 }, emergency : { 0, 1 } ]
TestPdus ==
    { Pdu(type, v.talk_group_id, v.source_id, v.dest_id, v.slot,
          v.encrypted, v.emergency) : type \in PduTypes, v \in FieldValues }

\* decode_control_channel_data called on a packed PDU
DecodeCall ==
    /\ cb_bits = << >>
    /\ \E f \in TestPdus, garbage \in StackGarbage :
         \E bits \in { Pack(f) } :
         \E d \in { DecodeControlChannelData(bits, garbage, now) } :
            /\ cb_bits' = bits
            /\ ctrl_msg' = d.msg
            /\ decode_ok' = d.ok
    /\ UNCHANGED << trunkVars, notTrunkPdu, lockVars, cbVars >>

NextPdu ==
    \/ Tick
    \/ ControlBurst

NextDecode ==
    \/ Tick
    \/ DecodeCall

----------------------------------------------------------------------------
(* The threads of main(): the main thread, which captures inside           *)
(* rtl_sdr_start, waits in the CLI loop and then cleans up; the channel    *)
(* monitor thread; the audio consumer thread.                              *)

\* main() after channel_manager_start and audio_playback_start, about to
\* enter rtl_sdr_start, which sets sdr->running
InitLife ==
    /\ g_running = TRUE
    /\ sdr_running = TRUE
    /\ playback_running = TRUE
    /\ main_pc = "capture"
    /\ pb_pc = "test"
    /\ read_error = FALSE
    /\ write_error = FALSE

\* signal_handler: SIGINT or SIGTERM from outside
SignalHandler ==
    /\ g_running
    /\ main_pc # "done"
    /\ g_running' = FALSE
    /\ UNCHANGED << sdr_running, playback_running, main_pc, pb_pc,
                    read_error, write_error >>
    /\ UNCHANGED << trunkVars, notLife >>

\* the control messages the capture delivers in the model of the threads:
\* a grant for the monitored talk group and its release
LifeMessages ==
    { Msg("CHANNEL_GRANT", 1000, 77, GrantFreq(1), FALSE, FALSE),
      Msg("CHANNEL_RELEASE", 1000, 0, 0, FALSE, FALSE) }

\* rtl_sdr_start's loop, a buffer read: sdr_callback returns at once when
\* g_running is false, and otherwise feeds the channel manager on the
\* control frequency or writes decoded audio to the ring
CaptureCallback ==
    /\ main_pc = "capture"
    /\ sdr_running
    /\ IF ~g_running THEN UNCHANGED vars
       ELSE \/ /\ current_frequency = config.control_channel_freq
               /\ control_msg_count < MaxLifeMsgs
               /\ \E msg \in LifeMessages : ProcessControlMessage(msg)
            \/ \E count \in 1 .. MaxCount :
                  /\ written + count <= MaxLifeSamples
                  /\ AudioPlaybackWrite(count)

\* rtl_sdr_start's loop, rtlsdr_read_sync fails: break and return 0
CaptureReadError ==
    /\ main_pc = "capture"
    /\ sdr_running
    /\ read_error' = TRUE
    /\ main_pc' = "main_loop"
    /\ UNCHANGED << g_running, sdr_running, playback_running, pb_pc,
                    write_error >>
    /\ UNCHANGED << trunkVars, notLife >>

\* rtl_sdr_start in simulation mode: the iterations are used up, return 0
CaptureEnds ==
    /\ main_pc = "capture"
    /\ main_pc' = "main_loop"
    /\ UNCHANGED << g_running, sdr_running, playback_running, pb_pc,
                    read_error, write_error >>
    /\ UNCHANGED << trunkVars, notLife >>

\* main: while (g_running) usleep(100000), left once g_running is false
MainLoopExit ==
    /\ main_pc = "main_loop"
    /\ ~g_running
    /\ main_pc' = "stop_mgr"
    /\ UNCHANGED << g_running, sdr_running, playback_running, pb_pc,
                    read_error, write_error >>
    /\ UNCHANGED << trunkVars, notLife >>

\* channel_manager_stop (from channel_manager_cleanup): mgr->running = false
ChannelManagerStop ==
    /\ main_pc = "stop_mgr"
    /\ running' = FALSE
    /\ main_pc' = "join_mgr"
    /\ UNCHANGED << now, slotVars, histVars, statVars, monVars >>
    /\ UNCHANGED << g_running, sdr_running, playback_running, pb_pc,
                    read_error, write_error >>
    /\ UNCHANGED notLife

\* JoinMonitor returning without waiting for the monitor thread
JoinMonitorNoWait ==
    /\ main_pc = "join_mgr"
    /\ main_pc' = "stop_sdr"
    /\ UNCHANGED << g_running, sdr_running, playback_running, pb_pc,
                    read_error, write_error >>
    /\ UNCHANGED << trunkVars, notLife >>

\* channel_manager_stop: pthread_join(mgr->monitor_thread) returns
JoinMonitor ==
    /\ main_pc = "join_mgr"
    /\ mon_pc = "exited"
    /\ main_pc' = "stop_sdr"
    /\ UNCHANGED << g_running, sdr_running, playback_running, pb_pc,
                    read_error, write_error >>
    /\ UNCHANGED << trunkVars, notLife >>

\* rtl_sdr_stop: sdr->running = false
RtlSdrStop ==
    /\ main_pc = "stop_sdr"
    /\ sdr_running' = FALSE
    /\ main_pc' = "stop_playback"
    /\ UNCHANGED << g_running, playback_running, pb_pc, read_error,
                    write_error >>
    /\ UNCHANGED << trunkVars, notLife >>

\* audio_playback_stop (from audio_playback_cleanup): running = false
AudioPlaybackStop ==
    /\ main_pc = "stop_playback"
    /\ playback_running' = FALSE
    /\ main_pc' = "join_playback"
    /\ UNCHANGED << g_running, sdr_running, pb_pc, read_error, write_error >>
    /\ UNCHANGED << trunkVars, notLife >>

\* audio_playback_stop: pthread_join(playback->playback_thread) returns;
\* the ring is freed and main() runs to "Shutdown complete."
JoinPlayback ==
    /\ main_pc = "join_playback"
    /\ pb_pc = "exited"
    /\ main_pc' = "done"
    /\ UNCHANGED << g_running, sdr_running, playback_running, pb_pc,
                    read_error, write_error >>
    /\ UNCHANGED << trunkVars, notLife >>

\* the steps of the main thread
MainStep ==
    \/ CaptureCallback
    \/ CaptureReadError
    \/ CaptureEnds
    \/ MainLoopExit
    \/ ChannelManagerStop
    \/ JoinMonitor
    \/ RtlSdrStop
    \/ AudioPlaybackStop
    \/ JoinPlayback

\* channel_monitor_thread: while (mgr->running) found false after the sleep
MonitorExit ==
    /\ mon_pc = "sleep"
    /\ ~running
    /\ mon_pc' = "exited"
    /\ UNCHANGED << now, running, slotVars, histVars, statVars, mon_now,
                    mon_oob >>
    /\ UNCHANGED notTrunk

\* the steps of the monitor thread
MonitorStep ==
    \/ MonitorWake
    \/ MonitorScan
    \/ MonitorExit

\* playback_thread_func: while (playback->running)
PlaybackTest ==
    /\ pb_pc = "test"
    /\ pb_pc' = IF playback_running THEN "body" ELSE "exited"
    /\ UNCHANGED << g_running, sdr_running, playback_running, main_pc,
                    read_error, write_error >>
    /\ UNCHANGED << trunkVars, notLife >>

\* playback_thread_func, the loop body with a chunk available: the chunk is
\* taken out of the ring and played; when snd_pcm_writei fails and
\* snd_pcm_recover fails too, the error is logged and the loop goes on
PlaybackPlay ==
    /\ pb_pc = "body"
    /\ ReadChunk
    /\ pb_pc' = "test"
    /\ \E failed \in BOOLEAN : write_error' = (write_error \/ failed)
    /\ UNCHANGED << g_running, sdr_running, playback_running, main_pc,
                    read_error >>
    /\ UNCHANGED << trunkVars, crackVars, pduVars, lockVars, detVars,
                    tea1Vars, cbVars >>

\* playback_thread_func, the loop body without a chunk: usleep(10000)
PlaybackWait ==
    /\ pb_pc = "body"
    /\ Available(ring_write_pos, ring_read_pos) < ChunkSize
    /\ pb_pc' = "test"
    /\ UNCHANGED << g_running, sdr_running, playback_running, main_pc,
                    read_error, write_error >>
    /\ UNCHANGED << trunkVars, notLife >>

\* the steps of the audio consumer thread
PlaybackStep ==
    \/ PlaybackTest
    \/ PlaybackPlay
    \/ PlaybackWait

NextLife ==
    \/ Tick
    \/ SignalHandler
    \/ MainStep
    \/ MonitorStep
    \/ PlaybackStep

\* the main thread's scheduled steps with a tuner attached (sdr->dev set):
\* rtl_sdr_start runs while (sdr->running) around rtlsdr_read_sync and the
\* callback, and has no iteration limit
TunerMainRuns ==
    \/ CaptureCallback
    \/ MainLoopExit
    \/ ChannelManagerStop
    \/ JoinMonitor
    \/ RtlSdrStop
    \/ AudioPlaybackStop
    \/ JoinPlayback

\* the main thread with a tuner attached: a failing read is the device's
\* choice and the only way out of the read loop
TunerMainStep ==
    \/ TunerMainRuns
    \/ CaptureReadError

NextTuner ==
    \/ Tick
    \/ SignalHandler
    \/ TunerMainStep
    \/ MonitorStep
    \/ PlaybackStep

----------------------------------------------------------------------------
(* Detection parameters, the operator panel (gui.c) and the two mutexes    *)
(* params->lock and status->lock.  Powers and the power multiplier are in  *)
(* tenths, correlations and the filter cutoff in hundredths.               *)

\* detection_params_reset_defaults
DefaultParams ==
    [ min_signal_power |-> 80, strong_match_threshold |-> 20,
      moderate_match_threshold |-> 19, strong_correlation |-> 80,
      moderate_correlation |-> 75, lpf_cutoff |-> 50,
      moderate_power_multiplier |-> 12 ]

\* g_config.squelch_threshold, main()'s default
SquelchThreshold == 150

\* the sliders in the order on_reset_defaults sets them
Sliders ==
    << "min_signal_power", "strong_match_threshold",
       "moderate_match_threshold", "strong_correlation",
       "moderate_correlation", "lpf_cutoff", "moderate_power_multiplier" >>

\* positions the operator moves a slider to, within the slider's range
ScaleValues ==
    [ min_signal_power |-> { 10, 80, 200 },
      strong_match_threshold |-> { 18, 22 },
      moderate_match_threshold |-> { 15, 22 },
      strong_correlation |-> { 50, 100 },
      moderate_correlation |-> { 50, 100 },
      lpf_cutoff |-> { 10, 100 },
      moderate_power_multiplier |-> { 10, 20 } ]

Threads == { "gui", "sdr" }

\* main(): detection_params_init, then min_signal_power = squelch_threshold;
\* tetra_gui_init creates every slider at its parameter's value
InitPanel ==
    /\ params = [ DefaultParams EXCEPT !.min_signal_power = SquelchThreshold ]
    /\ scales = [ DefaultParams EXCEPT !.min_signal_power = SquelchThreshold ]
    /\ slides = 0

InitMutex ==
    /\ held = [ t \in Threads |-> { } ]
    /\ prog = [ t \in Threads |-> << >> ]
    /\ stuck = { }

\* update_parameter_labels
UpdateParameterLabels == << << "lock", "params" >>, << "unlock", "params" >> >>

\* on_parameter_changed for slider f
OnParameterChanged(f) ==
    << << "lock", "params" >>, << "write", f >>, << "unlock", "params" >> >>
    \o UpdateParameterLabels

\* on_reset_defaults: detection_params_reset_defaults, then every slider is
\* set to its parameter with params->lock held, then the labels
OnResetDefaults ==
    << << "lock", "params" >>, << "defaults" >>, << "unlock", "params" >>,
       << "lock", "params" >> >>
    \o [ k \in 1 .. Len(Sliders) |-> << "set_value", Sliders[k] >> ]
    \o << << "unlock", "params" >> >>
    \o UpdateParameterLabels

\* update_status_display, the panel's timer
UpdateStatusDisplay == << << "lock", "status" >>, << "unlock", "status" >> >>

\* tetra_demod_process above the squelch: lpf_cutoff is read under the lock
DemodProcessLocks == << << "lock", "params" >>, << "unlock", "params" >> >>

\* tetra_detect_burst: the parameters are read, the power is stored, and
\* unless the power is too low the decision is stored
DetectBurstLocks(decided) ==
    << << "lock", "params" >>, << "unlock", "params" >>,
       << "lock", "status" >>, << "unlock", "status" >> >>
    \o IF decided
       THEN << << "lock", "status" >>, << "unlock", "status" >> >>
       ELSE << >>

\* thread t enters the function or handler whose steps are ops
Enter(t, ops) ==
    /\ prog[t] = << >>
    /\ prog' = [ prog EXCEPT ![t] = ops ]

\* the operator moves slider f to v: GTK stores the value and emits
\* "value-changed", which runs on_parameter_changed
Slide(f, v) ==
    /\ slides < MaxSlides
    /\ v # scales[f]
    /\ Enter("gui", OnParameterChanged(f))
    /\ scales' = [ scales EXCEPT ![f] = v ]
    /\ slides' = slides + 1
    /\ UNCHANGED << params, held, stuck, demodVars >>
    /\ UNCHANGED notDet

\* the operator clicks "Reset to Defaults"
ResetClicked ==
    /\ Enter("gui", OnResetDefaults)
    /\ UNCHANGED << panelVars, held, stuck, demodVars >>
    /\ UNCHANGED notDet

\* the panel's 100 ms timer fires
TimerFires ==
    /\ Enter("gui", UpdateStatusDisplay)
    /\ UNCHANGED << panelVars, held, stuck, demodVars >>
    /\ UNCHANGED notDet

\* sdr_callback calls tetra_demod_process or tetra_detect_burst
SdrEnters ==
    /\ \/ Enter("sdr", DemodProcessLocks)
       \/ \E decided \in BOOLEAN : Enter("sdr", DetectBurstLocks(decided))
    /\ UNCHANGED << panelVars, held, stuck, demodVars >>
    /\ UNCHANGED notDet

\* pthread_mutex_lock(m) by thread t.  The mutexes are initialised with
\* default attributes: a thread that locks a mutex it holds never returns.
MutexLock(t, m) ==
    IF m \in held[t]
    THEN /\ t \notin stuck
         /\ stuck' = stuck \cup { t }
         /\ UNCHANGED << held, prog, panelVars >>
    ELSE /\ \A u \in Threads : m \notin held[u]
         /\ held' = [ held EXCEPT ![t] = @ \cup { m } ]
         /\ prog' = [ prog EXCEPT ![t] = Tail(@) ]
         /\ UNCHANGED << stuck, panelVars >>

\* pthread_mutex_unlock(m) by thread t
MutexUnlock(t, m) ==
    /\ held' = [ held EXCEPT ![t] = @ \ { m } ]
    /\ prog' = [ prog EXCEPT ![t] = Tail(@) ]
    /\ UNCHANGED << stuck, panelVars >>

\* gtk_range_set_value(scale f, params->f): a slider whose value changes
\* emits "value-changed", and on_parameter_changed runs inside the call
SetValue(t, f) ==
    /\ scales' = [ scales EXCEPT ![f] = params[f] ]
    /\ prog' = [ prog EXCEPT ![t] =
                   IF scales[f] # params[f]
                   THEN OnParameterChanged(f) \o Tail(@) ELSE Tail(@) ]
    /\ UNCHANGED << params, slides, held, stuck >>

\* the next step of the function or handler thread t is running
ThreadStep(t) ==
    /\ prog[t] # << >>
    /\ t \notin stuck
    /\ LET op == Head(prog[t]) IN
       CASE op[1] = "lock" -> MutexLock(t, op[2])
         [] op[1] = "unlock" -> MutexUnlock(t, op[2])
         [] op[1] = "write" ->
              /\ params' = [ params EXCEPT ![op[2]] = scales[op[2]] ]
              /\ prog' = [ prog EXCEPT ![t] = Tail(@) ]
              /\ UNCHANGED << scales, slides, held, stuck >>
         [] op[1] = "defaults" ->
              /\ params' = DefaultParams
              /\ prog' = [ prog EXCEPT ![t] = Tail(@) ]
              /\ UNCHANGED << scales, slides, held, stuck >>
         [] op[1] = "set_value" -> SetValue(t, op[2])
    /\ UNCHANGED << demodVars, notDet >>

NextLocks ==
    \/ \E k \in 1 .. Len(Sliders) :
          \E v \in ScaleValues[Sliders[k]] : Slide(Sliders[k], v)
    \/ ResetClicked
    \/ TimerFires
    \/ SdrEnters
    \/ \E t \in Threads : ThreadStep(t)

----------------------------------------------------------------------------
(* The demodulator (tetra_demod.c): tetra_demod_process slices a buffer    *)
(* into bits, tetra_detect_burst searches them for the training sequence.  *)
(* Quadrature demodulation and the low-pass filter are not computed: the   *)
(* sign of the filtered sample at each slicing position is an input.       *)

TETRA_TRAINING_SEQ ==
    << 1, 1, 0, 0, 1, 0, 1, 0, 0, 1, 1, 1, 0, 1, 0, 0, 0, 1, 1, 0, 1, 0 >>

\* the length of the training sequence
TrainingLength == 22

\* (int)samples_per_symbol, 2400000 / 18000
SamplesPerSymbol == 133

\* demod->sample_count, SDR_BUFFER_SIZE / 2 in the program: as there, a full
\* buffer holds more symbols than the bit buffer takes
SampleCount == (BurstLength + 2) * SamplesPerSymbol

\* detection_status_reset
InitStatus ==
    [ current_signal_power |-> 0, last_match_count |-> 0,
      last_correlation |-> 0, last_offset |-> -1, burst_detected |-> FALSE,
      last_detection_time |-> 0, detection_count |-> 0 ]

\* tetra_demod_init: calloc'ed buffers, bit_count 0
InitDemod ==
    /\ bit_count = 0
    /\ demod_bits = [ k \in 1 .. BurstLength |-> 0 ]
    /\ buffer_power = 0
    /\ demod_ret = 0
    /\ demod_call = [ len |-> 0, signal_power |-> 0 ]
    /\ status = InitStatus
    /\ det = [ ret |-> FALSE, signal_power |-> 0, p |-> DefaultParams ]
    /\ sdr_pc = "process"
    /\ buffers = 0

\* the bit loop of tetra_demod_process from sample i and bit bit_index on:
\* one bit per SamplesPerSymbol samples, at most BurstLength bits; signs[k]
\* is whether the filtered sample of the k-th slicing position is > 0
RECURSIVE SliceLoop(_, _, _, _, _)
SliceLoop(i, bit_index, sample_pairs, bits, signs) ==
    IF i < sample_pairs /\ bit_index < BurstLength
    THEN SliceLoop(i + SamplesPerSymbol, bit_index + 1, sample_pairs,
                   [ bits EXCEPT ![bit_index + 1] = signs[bit_index + 1] ],
                   signs)
    ELSE [ bits |-> bits, bit_index |-> bit_index ]

\* the training sequence with its first k bits inverted
Inverted(k) ==
    [ i \in 1 .. TrainingLength |->
        IF i <= k THEN 1 - TETRA_TRAINING_SEQ[i] ELSE TETRA_TRAINING_SEQ[i] ]

\* a sliced buffer that carries sequence seq from bit offset on, zeros
\* around it
Carrying(seq, offset) ==
    [ k \in 1 .. (BurstLength + 1) |->
        IF k > offset /\ k <= offset + Len(seq) THEN seq[k - offset] ELSE 0 ]

\* a buffer that carries the training sequence twice: with two bit errors
\* at bit 0, and without error in the last 22 bits of a full bit buffer
TwoBursts ==
    [ k \in 1 .. (BurstLength + 1) |->
        IF k <= TrainingLength THEN Inverted(2)[k]
        ELSE IF k > BurstLength - TrainingLength /\ k <= BurstLength
        THEN TETRA_TRAINING_SEQ[k - (BurstLength - TrainingLength)]
        ELSE 0 ]

\* the sliced buffers the demodulator is fed: the training sequence with
\* 0, 2, 3 or 7 bit errors, at bit 0 or at bit 1, and the sequence twice
SignPatterns ==
    { Carrying(Inverted(k), offset) : k \in { 0, 2, 3, 7 },
                                      offset \in { 0, 1 } }
    \cup { TwoBursts }

\* the lengths in bytes of the buffers: too short, 22 symbols, 23 symbols
\* and a full buffer
BufferLengths ==
    { 1, 2 * TrainingLength * SamplesPerSymbol,
      2 * (TrainingLength * SamplesPerSymbol + 1), 2 * SampleCount }

\* RMS powers of a buffer, in tenths
Powers == { 100, 150, 400 }

\* Process leaving the old bits in place below the squelch
ProcessKeepingBits(len, power, whole, signs, oom) ==
    LET pairs == IF len \div 2 > SampleCount THEN SampleCount
                 ELSE len \div 2
        sliced == SliceLoop(0, 0, pairs, demod_bits, signs)
    IN  IF len < 2
        THEN [ ret |-> -1, bit_count |-> bit_count, bits |-> demod_bits,
               power |-> buffer_power ]
        ELSE IF power < SquelchThreshold
        THEN [ ret |-> 0, bit_count |-> bit_count, bits |-> demod_bits,
               power |-> whole ]
        ELSE IF oom
        THEN [ ret |-> -1, bit_count |-> bit_count, bits |-> demod_bits,
               power |-> whole ]
        ELSE [ ret |-> sliced.bit_index, bit_count |-> sliced.bit_index,
               bits |-> sliced.bits, power |-> whole ]

\* tetra_demod_process(demod, iq_data, len): power is the RMS power of the
\* converted sample pairs, whole that of the whole sample buffer after
\* the conversion, and oom says that malloc fails
Process(len, power, whole, signs, oom) ==
    LET pairs == IF len \div 2 > SampleCount THEN SampleCount
                 ELSE len \div 2
        sliced == SliceLoop(0, 0, pairs, demod_bits, signs)
    IN  IF len < 2
        THEN [ ret |-> -1, bit_count |-> bit_count, bits |-> demod_bits,
               power |-> buffer_power ]
        ELSE IF power < SquelchThreshold
        THEN [ ret |-> 0, bit_count |-> 0, bits |-> demod_bits,
               power |-> whole ]
        ELSE IF oom
        THEN [ ret |-> -1, bit_count |-> bit_count, bits |-> demod_bits,
               power |-> whole ]
        ELSE [ ret |-> sliced.bit_index, bit_count |-> sliced.bit_index,
               bits |-> sliced.bits, power |-> whole ]

\* sdr_callback: tetra_demod_process on the next buffer; tetra_detect_burst
\* follows when it returned more than 0
DemodProcess ==
    /\ sdr_pc = "process"
    /\ buffers < MaxBuffers
    /\ prog["sdr"] = << >>
    /\ "params" \notin held["gui"]
    /\ \E len \in BufferLengths, power \in Powers, signs \in SignPatterns,
          oom \in BOOLEAN :
         \E whole \in IF len \div 2 >= SampleCount THEN { power }
                       ELSE { power, 100 } :
         \E r \in { Process(len, power, whole, signs, oom) } :
            /\ demod_ret' = r.ret
            /\ demod_call' = [ len |-> len, signal_power |-> power ]
            /\ bit_count' = r.bit_count
            /\ demod_bits' = r.bits
            /\ buffer_power' = r.power
            /\ sdr_pc' = IF r.ret > 0 THEN "detect" ELSE "process"
    /\ buffers' = buffers + 1
    /\ UNCHANGED << status, det >>
    /\ UNCHANGED << panelVars, mutexVars, notDet >>

\* the correlation loop of tetra_detect_burst at one offset, from bit i on:
\* matches counted, correlation summed as +1 and -1
RECURSIVE Correlate(_, _, _)
Correlate(offset, i, acc) ==
    IF i >= TrainingLength THEN acc
    ELSE IF demod_bits[offset + i + 1] = TETRA_TRAINING_SEQ[i + 1]
    THEN Correlate(offset, i + 1,
                   [ matches |-> acc.matches + 1,
                     correlation |-> acc.correlation + 1 ])
    ELSE Correlate(offset, i + 1,
                   [ matches |-> acc.matches,
                     correlation |-> acc.correlation - 1 ])

\* matches and correlation (in 22nds) of the window at offset
Window(offset) == Correlate(offset, 0, [ matches |-> 0, correlation |-> 0 ])

\* correlation >= threshold, the correlation in 22nds and the threshold in
\* hundredths
CorrelationAtLeast(correlation, threshold) ==
    100 * correlation >= TrainingLength * threshold

\* the strong test of tetra_detect_burst with the wrong comparison of the
\* match count
StrongMatchLoose(w, p) ==
    /\ w.matches <= p.strong_match_threshold
    /\ CorrelationAtLeast(w.correlation, p.strong_correlation)

\* the strong test of tetra_detect_burst on the window w
StrongMatch(w, p) ==
    /\ w.matches >= p.strong_match_threshold
    /\ CorrelationAtLeast(w.correlation, p.strong_correlation)

\* the moderate test of tetra_detect_burst on the best window
ModerateMatch(best, signal_power, p) ==
    /\ best.matches >= p.moderate_match_threshold
    /\ CorrelationAtLeast(best.correlation, p.moderate_correlation)
    /\ 10 * signal_power >= p.min_signal_power * p.moderate_power_multiplier

\* the search loop of tetra_detect_burst from offset on, best being
\* best_match, best_correlation and best_offset so far: the decision and
\* what it stores in the status
RECURSIVE Search(_, _, _, _)
Search(offset, best, signal_power, p) ==
    IF offset < bit_count - TrainingLength
    THEN LET w == Window(offset)
             better == IF w.matches > best.matches
                       THEN [ matches |-> w.matches,
                              correlation |-> w.correlation,
                              offset |-> offset ]
                       ELSE best
         IN  IF StrongMatch(w, p)
             THEN [ ret |-> TRUE, stored |-> TRUE, matches |-> w.matches,
                    correlation |-> w.correlation, offset |-> offset ]
             ELSE Search(offset + 1, better, signal_power, p)
    ELSE [ ret |-> ModerateMatch(best, signal_power, p), stored |-> TRUE,
           matches |-> best.matches, correlation |-> best.correlation,
           offset |-> best.offset ]

\* tetra_detect_burst with the parameters p it loaded under params->lock
Detect(p) ==
    IF bit_count < TrainingLength \/ buffer_power < p.min_signal_power
    THEN [ ret |-> FALSE, stored |-> FALSE, matches |-> 0,
           correlation |-> 0, offset |-> -1 ]
    ELSE Search(0, [ matches |-> 0, correlation |-> 0, offset |-> -1 ],
                buffer_power, p)

\* sdr_callback: tetra_detect_burst(active_demod)
DetectBurst ==
    /\ sdr_pc = "detect"
    /\ prog["sdr"] = << >>
    /\ "params" \notin held["gui"]
    /\ \E d \in { Detect(params) } :
         /\ det' = [ ret |-> d.ret, signal_power |-> buffer_power,
                     p |-> params ]
         /\ status' =
               IF bit_count < TrainingLength THEN status
               ELSE IF ~d.stored
               THEN [ status EXCEPT !.current_signal_power = buffer_power ]
               ELSE [ current_signal_power |-> buffer_power,
                      last_match_count |-> d.matches,
                      last_correlation |-> d.correlation,
                      last_offset |-> d.offset,
                      burst_detected |-> d.ret,
                      last_detection_time |->
                          IF d.ret THEN now ELSE status.last_detection_time,
                      detection_count |->
                          IF d.ret THEN status.detection_count + 1
                          ELSE status.detection_count ]
    /\ sdr_pc' = "process"
    /\ UNCHANGED << bit_count, demod_bits, buffer_power, demod_ret,
                    demod_call, buffers >>
    /\ UNCHANGED << panelVars, mutexVars, notDet >>

\* on_parameter_changed and update_parameter_labels as a whole, after the
\* operator has moved slider f to v
ParameterChanged(f, v) ==
    /\ slides < MaxSlides
    /\ v # scales[f]
    /\ prog["gui"] = << >>
    /\ scales' = [ scales EXCEPT ![f] = v ]
    /\ params' = [ params EXCEPT ![f] = v ]
    /\ slides' = slides + 1
    /\ UNCHANGED << mutexVars, demodVars, notDet >>

NextDemod ==
    \/ DemodProcess
    \/ DetectBurst

\* sdr_callback on the first buffer
FirstBuffer == buffers = 0 /\ DemodProcess

NextDetect ==
    \/ \E k \in 1 .. Len(Sliders) :
          \E v \in ScaleValues[Sliders[k]] : ParameterChanged(Sliders[k], v)
    \/ FirstBuffer
    \/ DetectBurst

----------------------------------------------------------------------------
(* sdr_callback (main.c) with the globals main() sets up for it: the       *)
(* options, the TEA1 context, g_demod and the manager's control_demod.     *)
(* What tetra_demod_process slices out of a buffer and what                *)
(* tetra_detect_burst answers are inputs here; the codec's arithmetic is   *)
(* not computed, the bytes handed to it are recorded.                      *)

\* TETRA_CODEC_FRAME_SIZE, bits per codec frame
TetraCodecFrameSize == 137

\* byte_count of sdr_callback, the bytes a codec frame is packed into
FrameBytes == (TetraCodecFrameSize + 7) \div 8

Demods == { "g_demod", "control_demod" }

\* default_key of main()
DefaultKey == << 0, 0, 0, 0, 0, 0, 0, 0, 0, 0 >>

\* nothing done yet, or a callback that returned before the burst branch
Idle(active, produced) ==
    [ active |-> active, produced |-> produced, burst |-> FALSE,
      parsed |-> FALSE, fed |-> FALSE, decrypted |-> FALSE,
      encrypted_bits |-> << >>, decrypted_bits |-> << >>,
      decoded |-> FALSE, written |-> { } ]

\* the statics of main.c before main() runs, and two calloc'ed demodulators
InitCallback ==
    /\ cb_pc = "args"
    /\ g_config = [ use_known_vulnerability |-> FALSE,
                    enable_trunking |-> FALSE,
                    enable_realtime_audio |-> FALSE, output_file |-> FALSE ]
    /\ g_tea1_ctx = [ key |-> DefaultKey, iv |-> ZeroIv,
                      vulnerability_mode |-> FALSE,
                      reduced_key |-> << 0, 0, 0, 0 >> ]
    /\ demod = [ d \in Demods |->
                   [ bit_count |-> 0,
                     demod_bits |-> [ k \in 1 .. TetraCodecFrameSize |-> 0 ] ] ]
    /\ callbacks = 0
    /\ cb = Idle("none", << >>)

\* main() up to rtl_sdr_start: the options of the command line, tea1_init
\* with the default key, the codec and the sinks the options ask for
ParseArgs ==
    /\ cb_pc = "args"
    /\ cb_pc' = "capture"
    /\ \E vulnerability, trunking, realtime, file \in BOOLEAN :
         /\ g_config' = [ use_known_vulnerability |-> vulnerability,
                          enable_trunking |-> trunking,
                          enable_realtime_audio |-> realtime,
                          output_file |-> file ]
         /\ g_tea1_ctx' = Tea1InitCtx(g_tea1_ctx, DefaultKey, vulnerability)
    /\ UNCHANGED << demod, callbacks, cb >>
    /\ UNCHANGED << trunkVars, pduVars, lockVars, notCallback >>

\* the demodulator sdr_callback hands the buffer to: control_demod while the
\* manager's tuner frequency is the control channel's, g_demod otherwise
ActiveDemod ==
    IF g_config.enable_trunking
       /\ current_frequency = config.control_channel_freq
    THEN "control_demod" ELSE "g_demod"

\* a decryption block that reads the demodulator the buffer was handed to
FrameSourceActive == ActiveDemod

\* the demodulator whose bit_count and demod_bits the decryption block of
\* sdr_callback reads
FrameSource == "g_demod"

\* tetra_demod_process on a demodulator: `bits` are the bits sliced out of
\* the buffer, none for a buffer the squelch rejects
DemodAfter(d, bits) ==
    IF bits = << >> THEN [ d EXCEPT !.bit_count = 0 ]
    ELSE [ bit_count |-> Len(bits),
           demod_bits |-> [ k \in 1 .. Len(d.demod_bits) |->
                              IF k <= Len(bits) THEN bits[k]
                              ELSE d.demod_bits[k] ] ]

\* encrypted_bits[] as the packing loop fills it from a demodulator: bit
\* i * 8 + j goes to bit 7 - j of byte i
PackFrame(d) ==
    [ i \in 1 .. FrameBytes |->
        LET bit(j) == IF (i - 1) * 8 + j < TetraCodecFrameSize
                         /\ (i - 1) * 8 + j < d.bit_count
                      THEN d.demod_bits[(i - 1) * 8 + j + 1] ELSE 0
        IN  128 * bit(0) + 64 * bit(1) + 32 * bit(2) + 16 * bit(3)
            + 8 * bit(4) + 4 * bit(5) + 2 * bit(6) + bit(7) ]

\* the sinks a decoded frame is written to
Sinks ==
    (IF g_config.enable_realtime_audio THEN { "playback" } ELSE { })
    \cup (IF g_config.output_file THEN { "file" } ELSE { })

\* The buffers of the model: a grant sliced to the least PDU length, to
\* one bit less than a codec frame and to a codec frame; a release and an
\* alternating pattern of a codec frame; a buffer the squelch rejects
CallbackGrant == Pdu(1, 1000, 77, 0, 1, 1, 0)
CallbackRelease == Pdu(2, 1000, 0, 0, 0, 0, 0)
SlicedLengths == { MinPduBits, TetraCodecFrameSize - 1, TetraCodecFrameSize }
Sliced ==
    { << >> }
    \cup { WithLength(Pack(CallbackGrant), n) : n \in SlicedLengths }
    \cup { WithLength(Pack(CallbackRelease), TetraCodecFrameSize),
           [ k \in 1 .. TetraCodecFrameSize |-> k % 2 ] }

\* the decryption block of sdr_callback, lines 120-163, on the demodulators
\* as tetra_demod_process left them: what it adds to the record of the
\* callback, and the TEA1 context afterwards
DecryptAndDecode(demods, done) ==
    LET src == demods[FrameSource] IN
    IF g_config.use_known_vulnerability
       /\ src.bit_count >= TetraCodecFrameSize
    THEN LET encrypted == PackFrame(src)
             stream == CHOOSE r \in { DecryptStreamFrom(g_tea1_ctx, encrypted,
                                                        0, g_tea1_ctx.iv) } :
                          TRUE
             codec == g_config.enable_realtime_audio \/ g_config.output_file
         IN  [ cb |-> [ done EXCEPT !.decrypted = TRUE,
                                    !.encrypted_bits = encrypted,
                                    !.decrypted_bits = stream.output,
                                    !.decoded = codec,
                                    !.written = IF codec THEN Sinks ELSE { } ],
               ctx |-> [ g_tea1_ctx EXCEPT !.iv = stream.iv ] ]
    ELSE [ cb |-> done, ctx |-> g_tea1_ctx ]

\* sdr_callback on one buffer
SdrCallbackOnBuffer ==
    /\ cb_pc = "capture"
    /\ callbacks < MaxCallbacks
    /\ callbacks' = callbacks + 1
    /\ \E bits \in Sliced, detected \in BOOLEAN, garbage \in StackGarbage :
         LET active == ActiveDemod
             demods == [ demod EXCEPT ![active] = DemodAfter(@, bits) ]
             control == g_config.enable_trunking /\ active = "control_demod"
         IN  /\ demod' = demods
             /\ IF bits = << >> \/ ~detected
                THEN /\ cb' = Idle(active, bits)
                     /\ UNCHANGED << g_tea1_ctx, trunkVars, pduVars, lockVars,
                                     notTrunkPdu >>
                ELSE \E d \in { IF control
                                 THEN DecodeControlChannelData(bits, garbage,
                                                               now)
                                 ELSE [ ok |-> FALSE, msg |-> garbage ] } :
                     \E r \in { DecryptAndDecode(demods,
                                   [ Idle(active, bits) EXCEPT
                                       !.burst = TRUE, !.parsed = control,
                                       !.fed = control /\ d.ok ]) } :
                       /\ cb' = r.cb
                       /\ g_tea1_ctx' = r.ctx
                       /\ IF control
                          THEN /\ cb_bits' = bits
                               /\ ctrl_msg' = d.msg
                               /\ decode_ok' = d.ok
                          ELSE UNCHANGED pduVars
                       /\ IF control /\ d.ok THEN ManagerProcess(d.msg)
                          ELSE UNCHANGED << trunkVars, lockVars, notTrunkPdu >>
    /\ UNCHANGED << cb_pc, g_config >>

NextCallback ==
    \/ ParseArgs
    \/ SdrCallbackOnBuffer

----------------------------------------------------------------------------
(* The voice codec (tetra_codec.c): the fields tetra_codec_decode_frame    *)
(* extracts from a frame and the pulses generate_excitation places.  An    *)
(* unsigned word is the set of the positions of its bits that are set,     *)
(* bit 0 the least significant.  The synthesis in floating point that      *)
(* follows is not computed.                                                *)

\* TETRA_CODEC_SAMPLES, samples per frame
TetraCodecSamples == 160

\* the width of int and of uint32_t
IntBits == 32

\* What a build makes of 1 << s for s >= 32, which C leaves undefined: the
\* shift count taken modulo 32, or no bit at all
WideShifts == { "masked", "zero" }

\* bit n of the frame, bit 7 - n % 8 of byte n / 8
FrameBit(data, n) == (data[(n \div 8) + 1] \div (2 ^ (7 - (n % 8)))) % 2

\* the bits of (1 << s) as they are or-ed into a uint32_t
ShiftedOne(s, wide) ==
    IF s < IntBits THEN { s }
    ELSE IF wide = "masked" THEN { s % IntBits } ELSE { }

\* extract_bits(data, start_bit, num_bits) of tetra_codec.c
CodecExtractBits(data, start_bit, num_bits, wide) ==
    UNION { ShiftedOne(num_bits - 1 - i, wide) :
              i \in { k \in 0 .. (num_bits - 1) :
                         FrameBit(data, start_bit + k) = 1 } }

\* (word >> shift) & 0x3F
SixBits(word, shift) ==
    (IF shift \in word THEN 1 ELSE 0) + (IF shift + 1 \in word THEN 2 ELSE 0)
    + (IF shift + 2 \in word THEN 4 ELSE 0)
    + (IF shift + 3 \in word THEN 8 ELSE 0)
    + (IF shift + 4 \in word THEN 16 ELSE 0)
    + (IF shift + 5 \in word THEN 32 ELSE 0)

\* pulse_pos and pulse_sign of generate_excitation for pulse i
Pulse(codebook_idx, i) ==
    [ pos |-> SixBits(codebook_idx, i * 6) % TetraCodecSamples,
      sign |-> IF (i * 6 + 6) \in codebook_idx THEN 1 ELSE -1 ]

\* the frame whose bits at these positions are set
FrameWith(S) ==
    [ j \in 1 .. FrameBytes |->
        LET bit(k) == IF (j - 1) * 8 + k \in S THEN 1 ELSE 0
        IN  128 * bit(0) + 64 * bit(1) + 32 * bit(2) + 16 * bit(3)
            + 8 * bit(4) + 4 * bit(5) + 2 * bit(6) + bit(7) ]

\* The frames decoded: one bit in the upper part of the codebook field, one
\* in its lower part and one in another field, at the ends of the fields;
\* the empty frame and the frame of ones
CodecFrames ==
    { FrameWith({ a, b, c }) : a \in { 41, 60 }, b \in { 61, 92 },
                               c \in { 0, 29, 30, 40, 93, 102 } }
    \cup { FrameWith({ }), FrameWith(0 .. (TetraCodecFrameSize - 1)) }

\* tetra_codec_init
InitCodec ==
    /\ frame_count = 0
    /\ encoded_bits = << >>
    /\ codec_fields = [ lpc_params |-> { }, pitch_period_idx |-> { },
                        pitch_gain_idx |-> { }, codebook_idx |-> { },
                        fixed_gain_idx |-> { } ]
    /\ pulses = [ i \in 0 .. 3 |-> [ pos |-> 0, sign |-> -1 ] ]

\* tetra_codec_decode_frame(codec, encoded_bits, audio_samples)
CodecDecodeFrame ==
    /\ frame_count < MaxCodecFrames
    /\ frame_count' = frame_count + 1
    /\ \E data \in CodecFrames, wide \in WideShifts :
         \E codebook_idx \in { CodecExtractBits(data, 41, 52, wide) } :
            /\ encoded_bits' = data
            /\ codec_fields' =
                  [ lpc_params |-> CodecExtractBits(data, 0, 30, wide),
                    pitch_period_idx |-> CodecExtractBits(data, 30, 7, wide),
                    pitch_gain_idx |-> CodecExtractBits(data, 37, 4, wide),
                    codebook_idx |-> codebook_idx,
                    fixed_gain_idx |-> CodecExtractBits(data, 93, 10, wide) ]
            /\ pulses' = [ i \in 0 .. 3 |-> Pulse(codebook_idx, i) ]
    /\ UNCHANGED notCodec

NextCodec == CodecDecodeFrame

----------------------------------------------------------------------------
(* Specifications                                                          *)

Init == InitTrunk /\ InitRing /\ InitCrack /\ InitPdu /\ InitLife /\ InitLock
        /\ InitPanel /\ InitMutex /\ InitDemod /\ InitCipher /\ InitPair
        /\ InitCallback /\ InitStream /\ InitCodec

Next == NextTrunk

\* The manager as a component: any sequence of control messages
Spec == Init /\ [][Next]_vars

FairSpec ==
    /\ Init
    /\ [][NextOrch]_vars
    /\ WF_vars(Tick)
    /\ WF_vars(SdrCallback)
    /\ WF_vars(MonitorWake)
    /\ WF_vars(MonitorScan)

\* The audio ring: one producer, one consumer
SpecRing == Init /\ [][NextRing]_vars

\* One call of tea1_crack_key
SpecCrack == Init /\ [][NextCrack]_vars

\* A decrypting context initialised and handed blocks
SpecCipher == Init /\ [][NextCipher]_vars

\* Two contexts initialised with a key each and given the same calls
SpecPair == Init /\ [][NextPair]_vars

\* one context, decrypting stream after stream
SpecStream == Init /\ [][NextStream]_vars

\* the codec decoding frame after frame
SpecCodec == Init /\ [][NextCodec]_vars

\* sdr_callback on the buffers of one capture
SpecCallback == Init /\ [][NextCallback]_vars

\* The control path of sdr_callback feeding the channel manager
SpecPdu == Init /\ [][NextPdu]_vars

\* The PDU decoder alone
SpecDecode == Init /\ [][NextDecode]_vars

\* The demodulator fed buffer after buffer
SpecDemod == Init /\ [][NextDemod]_vars

\* One buffer demodulated and searched, the operator at the sliders
SpecDetect == Init /\ [][NextDetect]_vars

\* The panel thread and the capture thread on the two detection mutexes
SpecLocks == Init /\ [][NextLocks]_vars

\* The threads of main(), each scheduled fairly; signals arrive or not
FairLife ==
    /\ Init
    /\ [][NextLife]_vars
    /\ WF_vars(MainStep)
    /\ WF_vars(MonitorStep)
    /\ WF_vars(PlaybackStep)

\* the threads of main() with a tuner attached: every thread is scheduled,
\* the device is not obliged to fail
FairTuner ==
    /\ Init
    /\ [][NextTuner]_vars
    /\ WF_vars(TunerMainRuns)
    /\ WF_vars(MonitorStep)
    /\ WF_vars(PlaybackStep)

----------------------------------------------------------------------------
(* Claims about the channel manager                                        *)

ActiveSlots == { i \in Slots : voice_channels[i].active }

\* C1: active_channel_count equals the number of voice slots whose active
\* flag is true, after any sequence of followed grants, releases and
\* monitor-loop timeouts.
C1_CountEqualsActiveSlots ==
    active_channel_count = Cardinality(ActiveSlots)

\* C2: current_frequency is the control-channel frequency, or the frequency
\* of voice_channels[current_channel_idx] with that slot active.
C2_TunerOnControlOrFollowedSlot ==
    \/ current_frequency = config.control_channel_freq
    \/ /\ current_channel_idx \in Slots
       /\ voice_channels[current_channel_idx].active
       /\ voice_channels[current_channel_idx].frequency = current_frequency

\* C3: whenever the tuner is on a voice frequency it eventually is on the
\* control-channel frequency again.
C3_ReturnsToControl ==
    (current_frequency # config.control_channel_freq)
        ~> (current_frequency = config.control_channel_freq)

\* C4: no two active voice slots have the same (frequency, talk_group_id).
C4_NoDuplicateActivePair ==
    \A i, j \in Slots :
        (i # j /\ voice_channels[i].active /\ voice_channels[j].active)
        => << voice_channels[i].frequency, voice_channels[i].talk_group_id >>
           # << voice_channels[j].frequency, voice_channels[j].talk_group_id >>

\* C9: every step that takes voice slots from active to inactive appends
\* one history entry per retired slot, carrying the slot's talk_group_id,
\* frequency, source_id and grant time.
C9_RetirementAppendsHistory ==
    [][ LET gone == { i \in Slots : voice_channels[i].active
                                    /\ ~voice_channels'[i].active }
            appended == (history_head' - history_head) % HistorySize
            fresh == { history'[(history_head + k) % HistorySize] :
                         k \in 0 .. (appended - 1) }
        IN  gone # {} =>
              /\ appended = Cardinality(gone) % HistorySize
              /\ \A i \in gone : \E e \in fresh :
                    /\ e.talk_group_id = voice_channels[i].talk_group_id
                    /\ e.frequency = voice_channels[i].frequency
                    /\ e.source_id = voice_channels[i].source_id
                    /\ e.timestamp = voice_channels[i].grant_time ]_vars

\* C15: channel_manager_tune_to_channel is never invoked while the calling
\* thread holds talk_group_lock, channel_lock or history_lock: the grant
\* path and the release path release channel_lock before retuning.
C15_TuneCalledWithoutLocks ==
    tune_locks \cap { "talk_group_lock", "channel_lock", "history_lock" } = { }

\* the entries of a history ring oldest first: the `count` entries that end
\* just before `head`
RingEntries(h, head, count) ==
    [ k \in 1 .. count |-> h[(head + 2 * HistorySize - count + k - 1) % HistorySize] ]

\* the last n elements of a sequence, or all of it
LastOf(q, n) == IF Len(q) <= n THEN q ELSE SubSeq(q, Len(q) - n + 1, Len(q))

\* the elements of a set of slot indices in increasing order
InOrder(S) ==
    CHOOSE q \in [ 1 .. Cardinality(S) -> S ] :
        \A i, j \in 1 .. Cardinality(S) : i < j => q[i] < q[j]

RECURSIVE TotalDuration(_)
TotalDuration(q) ==
    IF q = << >> THEN 0 ELSE Head(q).duration_ms + TotalDuration(Tail(q))

\* C23: the durations of all history entries sum to at most the wall-clock
\* time elapsed since the manager started (2000 ms per tick of the clock),
\* also when several voice slots were active at the same time.
C23_DurationsWithinElapsed ==
    TotalDuration(RingEntries(history, history_head, history_count))
        <= 2000 * now

\* two slots granted at the same time and timed out by one monitor pass, the
\* clock read by the monitor not behind either grant
C23_Overlap ==
    /\ history_count = 2
    /\ history[0].timestamp = history[1].timestamp
    /\ history[0].duration_ms = history[1].duration_ms
    /\ history[0].duration_ms \in 1 .. (2000 * now)

\* grant_time + duration of a history entry, in ms
EndTime(e) == 2000 * e.timestamp + e.duration_ms

\* C24: an appended history entry ends (grant_time + duration) no earlier
\* than every entry already in the history: read oldest first, the entries
\* of the ring never go back in end time, also when one monitor pass
\* retires several slots.
C24_NewestEntryEndsLatest ==
    LET q == RingEntries(history, history_head, history_count)
    IN  \A i, j \in 1 .. history_count :
            i < j => EndTime(q[i]) <= EndTime(q[j])

\* C26: a monitor pass marks inactive every voice slot, at whatever index,
\* that is active and whose last_update lies more than hold_time_ms before
\* the time the pass read.
C26_MonitorRetiresEveryExpiredSlot ==
    [][ (mon_pc = "scan" /\ mon_pc' = "sleep") =>
          \A i \in Slots :
              (/\ voice_channels[i].active
               /\ mon_now - voice_channels[i].last_update > config.hold_time)
              => ~voice_channels'[i].active ]_vars

\* C36: active_channel_count stays within 0 .. MAX_ACTIVE_CHANNELS in every
\* reachable state, also after cycles of a followed grant and an idle
\* timeout, so the monitor's loop over i < active_channel_count never
\* indexes outside the voice-slot array.
C36_CountWithinSlotArray ==
    /\ active_channel_count \in 0 .. MaxChannels
    /\ ~mon_oob

\* the follow decision as the specification words it
FollowDecision(msg) ==
    \/ config.emergency_override /\ msg.emergency
    \/ \E t \in DOMAIN talk_groups :
          /\ talk_groups[t].id = msg.talk_group_id
          /\ talk_groups[t].monitored
          /\ talk_groups[t].priority >= config.priority_threshold
    \/ config.record_all

InactiveSlots == Slots \ ActiveSlots

\* the least element of a non-empty set of slot indices
Lowest(S) == CHOOSE i \in S : \A j \in S : i <= j

\* C27: when a CHANNEL_GRANT is followed and an inactive slot exists, the
\* lowest-index inactive slot becomes active with the message's frequency,
\* talk group, source and encrypted flag and grant_time = last_update = now,
\* active_channel_count grows by one, current_channel_idx becomes that slot,
\* the tuner frequency becomes msg.channel_freq and no other slot changes.
C27_FollowedGrantFillsLowestSlot ==
    [][ \A msg \in Messages :
          (/\ ProcessControlMessage(msg)
           /\ msg.type = "CHANNEL_GRANT"
           /\ FollowDecision(msg)
           /\ config.auto_follow
           /\ msg.channel_freq > 0
           /\ InactiveSlots # { })
          => LET k == Lowest(InactiveSlots)
             IN  /\ voice_channels'[k] =
                        [ frequency |-> msg.channel_freq,
                          talk_group_id |-> msg.talk_group_id,
                          source_id |-> msg.source_id,
                          active |-> TRUE,
                          encrypted |-> msg.encrypted,
                          grant_time |-> now,
                          last_update |-> now ]
                 /\ active_channel_count' = active_channel_count + 1
                 /\ current_channel_idx' = k
                 /\ current_frequency' = msg.channel_freq
                 /\ \A j \in Slots \ { k } :
                       voice_channels'[j] = voice_channels[j] ]_vars

\* slot 0 was granted again, and is the current slot, while slot 1 stayed
\* active from an earlier grant
C27_Witness ==
    /\ voice_channels[0].active
    /\ voice_channels[1].active
    /\ voice_channels[0].grant_time > voice_channels[1].grant_time
    /\ current_channel_idx = 0
    /\ current_frequency = voice_channels[0].frequency

\* C28: a CHANNEL_GRANT or GROUP_CALL allocates a slot and retunes exactly
\* when the follow decision holds, auto_follow is set, msg.channel_freq > 0
\* and some slot is inactive; otherwise, also when every slot is active,
\* the voice slots, active_channel_count, current_channel_idx and the tuner
\* frequency stay as they are, as does the history: only the message and
\* call statistics change.
C28_FollowExactlyWhenDecided ==
    [][ \A msg \in Messages :
          (/\ ProcessControlMessage(msg)
           /\ msg.type \in { "CHANNEL_GRANT", "GROUP_CALL" })
          => LET decided == /\ FollowDecision(msg)
                            /\ config.auto_follow
                            /\ msg.channel_freq > 0
                            /\ InactiveSlots # { }
                 allocated == \E i \in Slots : /\ ~voice_channels[i].active
                                               /\ voice_channels'[i].active
             IN  /\ decided <=> allocated
                 /\ decided => current_frequency' = msg.channel_freq
                 /\ ~decided => UNCHANGED << slotVars, histVars >>
                 /\ total_calls' = total_calls + 1
                 /\ control_msg_count' = control_msg_count + 1 ]_vars

\* three encrypted grants for the monitored talk group were counted and the
\* third found both slots active
C28_Witness ==
    /\ control_msg_count = 3
    /\ total_calls = 3
    /\ encrypted_calls = 3
    /\ talk_groups[1].call_count = 3
    /\ active_channel_count = 2
    /\ Cardinality(ActiveSlots) = 2

\* C29: a CHANNEL_RELEASE for talk group g retires exactly one slot, the
\* lowest-index active slot of g, and takes one off active_channel_count;
\* if that slot was the current one the tuner goes to the control-channel
\* frequency and current_channel_idx to -1, otherwise both stay; with no
\* active slot of g no slot, count, index or frequency changes.
C29_ReleaseRetiresLowestMatch ==
    [][ \A msg \in Messages :
          (ProcessControlMessage(msg) /\ msg.type = "CHANNEL_RELEASE")
          => LET matching == { i \in ActiveSlots :
                                voice_channels[i].talk_group_id
                                    = msg.talk_group_id }
             IN  IF matching = { }
                 THEN UNCHANGED slotVars
                 ELSE LET k == Lowest(matching)
                      IN  /\ ~voice_channels'[k].active
                          /\ \A j \in Slots \ { k } :
                                voice_channels'[j] = voice_channels[j]
                          /\ active_channel_count' = active_channel_count - 1
                          /\ IF current_channel_idx = k
                             THEN /\ current_frequency'
                                        = config.control_channel_freq
                                  /\ current_channel_idx' = -1
                             ELSE UNCHANGED << current_frequency,
                                               current_channel_idx >> ]_vars

\* of two active slots of talk group 1000 a release has retired slot 0, and
\* the tuner is still on slot 1, the current one
C29_Witness ==
    /\ control_msg_count = 3
    /\ total_calls = 2
    /\ active_channel_count = 1
    /\ ~voice_channels[0].active
    /\ voice_channels[0].talk_group_id = 1000
    /\ voice_channels[1].active
    /\ voice_channels[1].talk_group_id = 1000
    /\ current_channel_idx = 1
    /\ current_frequency = voice_channels[1].frequency
    /\ history_count = 0

----------------------------------------------------------------------------
(* Claims about the audio ring                                             *)

\* the samples between the read index and the write index, oldest first
Unread ==
    [ k \in 1 .. ((ring_write_pos - ring_read_pos) % RingSize) |->
        ring_buffer[(ring_read_pos + k - 1) % RingSize] ]

\* the samples numbered a .. b in write order
Written(a, b) == [ k \in 1 .. (b - a + 1) |-> a + k - 1 ]

\* what the reader obtains: the chunks taken, then what is left to take
Obtained == delivered \o Unread

Increasing(seq) == \A i \in 1 .. (Len(seq) - 1) : seq[i] < seq[i + 1]

\* C5 as claimed: from an empty ring, writes totalling at most ring_size
\* samples with no write after a read are obtained by the reader complete
\* and in write order.
C5_NoLossUpToRingSize ==
    (~write_after_read /\ written <= RingSize)
        => Obtained = Written(1, written)

\* C5 as amended: the same for writes totalling at most ring_size - 1.
C5_NoLossBelowRingSize ==
    (~write_after_read /\ written <= RingSize - 1)
        => Obtained = Written(1, written)

C5_Witness ==
    /\ ~write_after_read
    /\ written = RingSize - 1
    /\ Len(delivered) >= ChunkSize
    /\ Obtained = Written(1, written)

\* C6 as claimed: when more than ring_size samples are written before any is
\* read, the reader obtains the most recent ring_size samples in write order.
C6_OverflowKeepsRingSize ==
    (~write_after_read /\ written > RingSize)
        => Obtained = Written(written - RingSize + 1, written)

\* C6 as amended: when more than ring_size - 1 samples are written before
\* any is read, it obtains the most recent ring_size - 1 samples in write
\* order, and exactly the samples older than those were dropped.
C6_OverflowKeepsRingSizeLessOne ==
    (~write_after_read /\ written > RingSize - 1)
        => /\ Obtained = Written(written - RingSize + 2, written)
           /\ dropped = written - (RingSize - 1)

C6_Witness ==
    /\ ~write_after_read
    /\ written > RingSize
    /\ Len(delivered) >= ChunkSize
    /\ Obtained = Written(written - RingSize + 2, written)

\* C7: under any interleaving of writes and chunk reads, what the consumer
\* takes is a subsequence of what was written, in write order and without
\* repetition, and the region it reads from holds only unread written
\* samples: the samples up to the last one written.
C7_ConsumerTakesWrittenInOrder ==
    /\ \A i \in 1 .. Len(delivered) : delivered[i] \in 1 .. written
    /\ Increasing(Obtained)
    /\ Unread = Written(written - Len(Unread) + 1, written)

C7_Witness ==
    /\ write_after_read
    /\ dropped > 0
    /\ Len(delivered) >= 2 * ChunkSize
    /\ \E i \in 1 .. (Len(delivered) - 1) : delivered[i + 1] > delivered[i] + 1

\* C8: both indices are in [0, ring_size), and (write - read) mod ring_size
\* is the number of samples written and neither read nor dropped by the
\* overwrite-oldest step.
C8_IndicesAndAvailableCount ==
    /\ ring_write_pos \in RingIndex
    /\ ring_read_pos \in RingIndex
    /\ (ring_write_pos - ring_read_pos) % RingSize
          = written - Len(delivered) - dropped

C8_Witness ==
    /\ dropped > 0
    /\ delivered # << >>
    /\ ring_write_pos < ring_read_pos
    /\ (ring_write_pos - ring_read_pos) % RingSize = RingSize - 1

----------------------------------------------------------------------------
(* Claims about TEA1 key recovery                                          *)

\* the candidates of the budget that decrypt the block to the known plaintext
Matching ==
    { k \in 0 .. (TestLimit - 1) :
        TestKeyCandidate(k, ciphertext, known_plaintext, plaintext_len) }

\* C10: tea1_crack_key reports found if and only if some candidate below the
\* budget decrypts the first ciphertext block to the known plaintext, and
\* then the result context holds the lowest such candidate (0 included);
\* with no match it reports not-found whatever the context held before.
C10_FoundIffCandidateMatches ==
    (crack_pc = "done" /\ plaintext_len >= Tea1BlockSize) =>
        /\ crack_ret <=> (Matching # {})
        /\ crack_ret =>
             \A k \in Matching :
                (\A j \in Matching : k <= j) => ctx_reduced_key = WordOf(k)

\* C20: under the vulnerable key schedule and any reduced key R,
\* tea1_decrypt_block takes Encrypt(P, R), the block obtained by undoing
\* its 32 rounds from P, back to P, and no two blocks to the same output:
\* the output of a call, encrypted, is the input of the call.
C20_DecryptInvertsEncrypt ==
    tea1_output # << >> =>
        /\ \A p \in PlainBlocks :
              tea1_input = Encrypted[tea1_reduced_key, p] => tea1_output = p
        /\ Encrypt[tea1_reduced_key, tea1_output] = tea1_input

\* the encryption of the 0x55 pattern under reduced key 0x0000002A,
\* decrypted under that key
C20_Witness ==
    /\ tea1_reduced_key = << 0, 0, 0, 42 >>
    /\ tea1_input = Encrypted[<< 0, 0, 0, 42 >>,
                              << 85, 85, 85, 85, 85, 85, 85, 85 >>]
    /\ tea1_input # << 85, 85, 85, 85, 85, 85, 85, 85 >>
    /\ tea1_output = << 85, 85, 85, 85, 85, 85, 85, 85 >>

\* C21: in vulnerability mode two contexts whose 80-bit keys agree on bytes
\* 0 .. 3 store the same output for the same tea1_decrypt_block and
\* tea1_decrypt_stream calls, whatever bytes 4 .. 9 are, and the reduced key
\* of a context is bytes 0 .. 3 of its key read big-endian.
C21_KeyTailHasNoInfluence ==
    (\A c \in Contexts : pair_ctx[c].vulnerability_mode) =>
        /\ \A c \in Contexts :
              pair_ctx[c].reduced_key =
                  WordOf(16777216 * pair_ctx[c].key[1]
                         + 65536 * pair_ctx[c].key[2]
                         + 256 * pair_ctx[c].key[3] + pair_ctx[c].key[4])
        /\ SubSeq(pair_ctx["a"].key, 1, 4) = SubSeq(pair_ctx["b"].key, 1, 4)
              => pair_output["a"] = pair_output["b"]

\* two blocks decrypted by tea1_decrypt_stream in vulnerability mode under
\* keys that agree on bytes 0 .. 3 and differ in bytes 4 .. 9
C21_Witness ==
    /\ \A c \in Contexts : pair_ctx[c].vulnerability_mode
    /\ SubSeq(pair_ctx["a"].key, 1, 4) = SubSeq(pair_ctx["b"].key, 1, 4)
    /\ SubSeq(pair_ctx["a"].key, 5, 10) # SubSeq(pair_ctx["b"].key, 5, 10)
    /\ Len(pair_input) = 18
    /\ Len(pair_output["a"]) = 16
    /\ pair_output["a"] = pair_output["b"]
    /\ pair_ctx["a"].iv # ZeroIv

----------------------------------------------------------------------------
(* Claims about the control-channel PDU parser                             *)

\* the PDU type byte of a bit vector, bits 0 to 7 most significant first
PduTypeOf(bits) == ExtractBits(BitsToBytes(bits), 0, 8)

\* a vector the decoder cannot parse: too short, or of no known PDU type
ParseFailure(bits) ==
    \/ Len(bits) < MinPduBits
    \/ PduTypeOf(bits) \notin 1 .. 8

\* C11: for a bit vector that is too short or whose first 8 bits are not a
\* known PDU type, decode_control_channel_data reports failure and leaves a
\* message tagged CTRL_MSG_UNKNOWN and stamped with the time of the call,
\* and the channel manager's state is left unchanged by that buffer.
C11_ParseFailureIsUnknownAndIgnored ==
    [][ (now' = now /\ ParseFailure(cb_bits'))
          => /\ ~decode_ok'
             /\ ctrl_msg'.type = "UNKNOWN"
             /\ ctrl_msg'.timestamp = now
             /\ UNCHANGED trunkVars ]_vars

\* C25: the frequency the manager is tuned to is always within the receive
\* band, 380 MHz to 470 MHz: a CHANNEL_GRANT whose slot field maps outside
\* the band never becomes current_frequency.
C25_TunedWithinBand ==
    /\ current_frequency >= TetraFrequencyMin
    /\ current_frequency <= TetraFrequencyMax

\* the step is sdr_callback's control path with a PDU of this type decoded
Parsed(pdu_type) ==
    /\ now' = now
    /\ decode_ok'
    /\ PduTypeOf(cb_bits') = pdu_type

\* C39: a GROUP_CALL PDU decoded by the parser always has channel_freq = 0,
\* so processing it never allocates a voice slot or retunes, whatever the
\* talk group's monitoring state or the emergency flag; among parsed
\* messages only CHANNEL_GRANT changes the tuner frequency away from the
\* control channel.
C39_GroupCallNeverTunes ==
    /\ [][ Parsed(3) => /\ ctrl_msg'.type = "GROUP_CALL"
                        /\ ctrl_msg'.channel_freq = 0
                        /\ UNCHANGED slotVars ]_vars
    /\ [][ current_frequency' \notin
              { current_frequency, config.control_channel_freq }
            => Parsed(1) /\ ctrl_msg'.type = "CHANNEL_GRANT" ]_vars

\* an emergency group call for the monitored talk group, with the bits of a
\* grant's slot field set, has been processed on the control channel
C39_Witness ==
    /\ decode_ok
    /\ cb_bits = GroupCallOverGrant
    /\ ctrl_msg.type = "GROUP_CALL"
    /\ ctrl_msg.talk_group_id = 1000
    /\ ctrl_msg.emergency
    /\ ShouldFollow(ctrl_msg)
    /\ total_calls > 0
    /\ talk_groups[1].call_count > 0
    /\ current_frequency = config.control_channel_freq

\* The PDU table: the message type of each known PDU type, and the message
\* fields each one carries.  A grant carries its frequency as a 12-bit slot;
\* an emergency PDU carries the emergency flag by its type.
MessageType(pdu_type) ==
    CASE pdu_type = 1 -> "CHANNEL_GRANT"
      [] pdu_type = 2 -> "CHANNEL_RELEASE"
      [] pdu_type = 3 -> "GROUP_CALL"
      [] pdu_type = 4 -> "UNIT_TO_UNIT"
      [] pdu_type = 5 -> "REGISTRATION"
      [] pdu_type = 6 -> "EMERGENCY"
      [] pdu_type = 7 -> "AFFILIATION"
      [] pdu_type = 8 -> "STATUS"
Carried(pdu_type) ==
    CASE pdu_type = 1 ->
           { "talk_group_id", "source_id", "channel_freq", "encrypted",
             "emergency" }
      [] pdu_type = 2 -> { "talk_group_id" }
      [] pdu_type = 3 -> { "talk_group_id", "source_id", "emergency" }
      [] pdu_type = 4 -> { "source_id", "dest_id", "encrypted" }
      [] pdu_type \in { 5, 7 } -> { "talk_group_id", "source_id" }
      [] pdu_type = 6 -> { "talk_group_id", "source_id", "emergency" }
      [] pdu_type = 8 -> { "source_id" }
MessageFields ==
    { "talk_group_id", "source_id", "dest_id", "channel_freq", "encrypted",
      "emergency" }

\* the value the message field `name` is to have after the PDU f went
\* through the parser
Original(f, name) ==
    LET carried == name \in Carried(f.pdu_type)
    IN  CASE name = "channel_freq" ->
               IF carried THEN 420000000 + 25000 * f.slot ELSE 0
          [] name = "encrypted" -> carried /\ f.encrypted = 1
          [] name = "emergency" ->
               carried /\ (f.pdu_type = 6 \/ f.emergency = 1)
          [] OTHER -> IF carried THEN f[name] ELSE 0

\* the PDUs of a known type, each with its packing
KnownPdus == { f \in TestPdus : f.pdu_type \in 1 .. 8 }
PackedPdus == { << f, Pack(f) >> : f \in KnownPdus }

\* C19: for every PDU of a known type (0x01 to 0x08) packed most
\* significant bit first at the offsets of the PDU table, the parser
\* succeeds and returns the type and the field values that were packed
\* (the frequency as 420,000,000 + 25,000 * slot), and every field the type
\* does not carry is zero or false.
C19_PackThenDecodeRoundTrips ==
    \A packed \in PackedPdus :
        LET f == packed[1]
        IN  cb_bits = packed[2] =>
                /\ decode_ok
                /\ ctrl_msg.type = MessageType(f.pdu_type)
                /\ \A name \in MessageFields :
                      ctrl_msg[name] = Original(f, name)

\* a grant decoded with every carried field at the top of its width
C19_Witness ==
    /\ decode_ok
    /\ cb_bits = Pack(Pdu(1, 65535, 16777215, 0, 4095, 1, 1))
    /\ ctrl_msg.type = "CHANNEL_GRANT"
    /\ ctrl_msg.talk_group_id = 65535
    /\ ctrl_msg.source_id = 16777215
    /\ ctrl_msg.channel_freq = 522375000
    /\ ctrl_msg.encrypted
    /\ ctrl_msg.emergency

----------------------------------------------------------------------------
(* Claims about the threads of main()                                      *)

\* C12: when the tuner read fails or the audio device write fails, the
\* global running flag becomes false and the program runs through its
\* normal shutdown (threads stopped and joined, cleanup run), with no
\* signal from outside needed.
C12_FatalErrorShutsDown ==
    (read_error \/ write_error) ~> (~g_running /\ main_pc = "done")

\* channel_manager_stop has returned
ManagerStopReturned ==
    main_pc \in { "stop_sdr", "stop_playback", "join_playback", "done" }

\* audio_playback_stop has returned
PlaybackStopReturned == main_pc = "done"

\* C13: once channel_manager_stop (audio_playback_stop) has set the running
\* flag to false, the monitor (consumer) thread starts no further pass of
\* its loop and exits, the join and the stop call return, and after the
\* stop has returned the thread changes nothing of the manager (the ring).
C13_StoppedThreadsExit ==
    /\ (main_pc = "join_mgr") ~> (mon_pc = "exited" /\ ManagerStopReturned)
    /\ (main_pc = "join_playback")
          ~> (pb_pc = "exited" /\ PlaybackStopReturned)
    /\ [][ (~running /\ mon_pc = "sleep") => mon_pc' # "scan" ]_vars
    /\ [][ (~playback_running /\ pb_pc = "test") => pb_pc' # "body" ]_vars
    /\ [][ ManagerStopReturned =>
             UNCHANGED << slotVars, histVars, statVars, monVars >> ]_vars
    /\ [][ PlaybackStopReturned => UNCHANGED << ringVars, pb_pc >> ]_vars

\* both threads have worked, were stopped and joined
C13_Witness ==
    /\ main_pc = "done"
    /\ mon_pc = "exited"
    /\ pb_pc = "exited"
    /\ history_count > 0
    /\ delivered # << >>

\* C14: the consumer thread is joined by audio_playback_stop only after it
\* has delivered every complete chunk that was in the ring when stop was
\* called; no buffered chunk is dropped by stop.
C14_StopFlushesBufferedChunks ==
    PlaybackStopReturned =>
        Available(ring_write_pos, ring_read_pos) < ChunkSize

\* the capture loop has ended, both threads were joined and main() ran its
\* cleanup to the end
ShutDown ==
    /\ main_pc = "done"
    /\ ~sdr_running
    /\ mon_pc = "exited"
    /\ pb_pc = "exited"

\* C38: after the shutdown signal has set the global running flag to
\* false, the program eventually stops the I/Q capture loop, joins the
\* monitor and audio threads, runs cleanup and exits, also when a real
\* tuner is attached and the capture loop is running.
C38_SignalShutsDown == (~g_running) ~> ShutDown

----------------------------------------------------------------------------
(* Claims about the fields the producer and the monitor thread share       *)

\* one access to a field of channel_manager_t: read or write, and the
\* mutexes the thread holds while it makes it
Access(field, kind, locks) ==
    [ field |-> field, kind |-> kind, locks |-> locks ]

\* the accesses channel_manager_process_control_message makes for msg, on
\* the thread that runs sdr_callback
ProcessAccesses(msg) ==
    LET tg == GetTalkGroup(msg.talk_group_id)
        call == msg.type \in { "CHANNEL_GRANT", "GROUP_CALL" }
        follow == /\ call
                  /\ ShouldFollow(msg) /\ config.auto_follow
                  /\ msg.channel_freq > 0
        slots == { "voice_channels", "active_channel_count",
                   "current_channel_idx", "current_frequency" }
    IN  { Access("last_control_msg_time", "write", { }),
          Access("control_msg_count", "write", { }),
          Access("talk_group_count", "read", { "talk_group_lock" }),
          Access("talk_groups.id", "read", { "talk_group_lock" }) }
        \cup { Access(f, "write", { "talk_group_lock" }) :
                 f \in IF tg # -1
                       THEN { "talk_groups.last_activity",
                              "talk_groups.call_count" }
                       ELSE { } }
        \cup { Access(f, "write", { }) :
                 f \in (IF call THEN { "total_calls" } ELSE { })
                       \cup (IF (call /\ msg.emergency)
                                 \/ msg.type = "EMERGENCY"
                             THEN { "emergency_calls" } ELSE { })
                       \cup (IF call /\ msg.encrypted
                             THEN { "encrypted_calls" } ELSE { }) }
        \cup { Access(f, "read", { }) :
                 f \in IF call /\ tg # -1
                       THEN { "talk_groups.monitored", "talk_groups.priority" }
                       ELSE { } }
        \cup { Access(f, "write", { "channel_lock" }) :
                 f \in IF follow \/ msg.type = "CHANNEL_RELEASE"
                       THEN slots ELSE { } }

\* the accesses of the pass of channel_monitor_thread's loop that is under
\* way: the loop test and the timeout check come before channel_lock is
\* taken, the scan and the history append after
MonitorAccesses ==
    IF mon_pc = "sleep"
    THEN { Access("running", "read", { }) }
         \cup (IF running
               THEN { Access("last_control_msg_time", "read", { }) }
               ELSE { })
         \cup (IF running /\ U64Sub(now, last_control_msg_time)
                                > ControlChannelTimeout
               THEN { Access("last_control_msg_time", "write", { }) }
               ELSE { })
    ELSE IF mon_pc = "scan"
    THEN { Access("active_channel_count", "read", { "channel_lock" }),
           Access("voice_channels", "write", { "channel_lock" }) }
         \cup { Access(f, "write", { "channel_lock", "history_lock" }) :
                  f \in { "history", "history_head", "history_count" } }
    ELSE { }

\* two accesses of different threads race: the same field, one of them a
\* write, and no mutex held by both
Races(a, b) ==
    /\ a.field = b.field
    /\ "write" \in { a.kind, b.kind }
    /\ a.locks \cap b.locks = { }

\* C40: no channel-manager field is written by one thread while another
\* thread reads or writes it without both holding a common mutex:
\* last_control_msg_time, the statistics counters and the talk-group fields
\* reached through the pointer of channel_manager_get_talk_group are
\* accessed free of data races.
C40_NoDataRace ==
    [][ \A msg \in Messages :
          ProcessControlMessage(msg) =>
             \A a \in ProcessAccesses(msg), b \in MonitorAccesses :
                ~Races(a, b) ]_vars

----------------------------------------------------------------------------
(* Claims about the detection mutexes                                      *)

\* C16: no thread holds params->lock and status->lock at the same time, and
\* no thread locks one of them while it already holds it (the panel's
\* reset-to-defaults handler, which triggers parameter-changed handlers,
\* included), so no thread blocks for ever on these mutexes.
C16_DetectionMutexesNeverNested ==
    \A t \in Threads :
        /\ ~({ "params", "status" } \subseteq held[t])
        /\ t \notin stuck

----------------------------------------------------------------------------
(* Claims about the demodulator                                            *)

\* C17: bit_count is always between 0 and the burst length; a successful
\* tetra_demod_process call returns exactly the new bit_count, and a call
\* whose RMS power is below the squelch threshold sets bit_count to 0 and
\* returns 0.
C17_BitCountBoundedAndReturned ==
    /\ bit_count \in 0 .. BurstLength
    /\ demod_ret >= 0 => demod_ret = bit_count
    /\ (demod_call.len >= 2 /\ demod_call.signal_power < SquelchThreshold)
          => (bit_count = 0 /\ demod_ret = 0)

\* a buffer below the squelch after a buffer that was demodulated
C17_Witness ==
    /\ buffers = 2
    /\ demod_call.len >= 2
    /\ demod_call.signal_power < SquelchThreshold
    /\ demod_bits[1] = 1
    /\ bit_count = 0

\* C18: whenever tetra_detect_burst returns true, the recorded match count
\* is in 0 .. 22, the recorded correlation equals (2 * matches - 22) / 22
\* and lies in [-1, 1], the power is at least min_signal_power, and the
\* strong inequalities hold for the recorded window or the moderate
\* inequalities hold for it.
C18_AcceptedBurstMeetsThresholds ==
    det.ret =>
        /\ status.burst_detected
        /\ status.last_match_count \in 0 .. 22
        /\ status.last_correlation = 2 * status.last_match_count - 22
        /\ status.last_correlation \in -22 .. 22
        /\ det.signal_power >= det.p.min_signal_power
        /\ \/ /\ status.last_match_count >= det.p.strong_match_threshold
              /\ 100 * status.last_correlation
                    >= 22 * det.p.strong_correlation
           \/ /\ status.last_match_count >= det.p.moderate_match_threshold
              /\ 100 * status.last_correlation
                    >= 22 * det.p.moderate_correlation
              /\ 10 * det.signal_power
                    >= det.p.min_signal_power
                         * det.p.moderate_power_multiplier

\* a burst accepted by the moderate test after the strong test failed, at
\* an offset other than 0
C18_Witness ==
    /\ det.ret
    /\ status.last_match_count < det.p.strong_match_threshold
    /\ status.last_offset = 1

\* the training sequence stands in the bit buffer at this offset
TrainingAt(offset) ==
    \A i \in 1 .. TrainingLength :
       demod_bits[offset + i] = TETRA_TRAINING_SEQ[i]

\* tetra_detect_burst has decided on the bits of the first buffer
Decided == buffers = 1 /\ sdr_pc = "process" /\ demod_ret > 0

\* C31: when the training sequence stands exactly at the last offset of the
\* bit buffer, L - 22, also when L = 22 and the offset is 0, and the power
\* is at least min_signal_power, tetra_detect_burst returns true with
\* last_offset = L - 22.
C31_LastOffsetIsExamined ==
    (/\ Decided
     /\ bit_count >= TrainingLength
     /\ TrainingAt(bit_count - TrainingLength)
     /\ det.signal_power >= det.p.min_signal_power)
    => (det.ret /\ status.last_offset = bit_count - TrainingLength)

\* every offset at which a 22-bit window fits the bit buffer
Offsets == 0 .. (bit_count - TrainingLength)

\* the strong-accept condition at an offset, under the parameters the
\* decision loaded
StrongAt(offset) ==
    /\ Window(offset).matches >= det.p.strong_match_threshold
    /\ 100 * Window(offset).correlation
          >= TrainingLength * det.p.strong_correlation

\* the least element of a non-empty set of offsets
LowestOffset(S) == CHOOSE o \in S : \A q \in S : o <= q

\* the offset the accepted burst is to be recorded at
AcceptedOffset ==
    IF \E o \in Offsets : StrongAt(o)
    THEN LowestOffset({ o \in Offsets : StrongAt(o) })
    ELSE LowestOffset({ o \in Offsets :
                          \A q \in Offsets :
                             Window(o).matches >= Window(q).matches })

\* C32: when tetra_detect_burst returns true, last_offset is the lowest
\* offset that meets the strong-accept condition if one does, otherwise the
\* lowest offset with the greatest match count; last_match_count and
\* last_correlation are those of the window at that offset, burst_detected
\* is true and detection_count has grown by exactly one; a false return
\* leaves detection_count as it was.
C32_AcceptedOffsetIsRecorded ==
    Decided =>
        IF det.ret
        THEN /\ status.last_offset = AcceptedOffset
             /\ status.last_match_count = Window(AcceptedOffset).matches
             /\ status.last_correlation = Window(AcceptedOffset).correlation
             /\ status.burst_detected
             /\ status.detection_count = 1
        ELSE status.detection_count = 0

\* C33: every tetra_demod_process call on valid input stores the RMS power
\* it computed for the buffer in status.current_signal_power, also a call
\* the squelch rejects: after it the status shows that buffer's power,
\* below the threshold, and detection_count is as it was.
C33_ProcessStoresPower ==
    (/\ buffers >= 1
     /\ demod_call.len >= 2
     /\ sdr_pc = "detect" \/ demod_ret <= 0)
    => status.current_signal_power = demod_call.signal_power

\* C37: status.burst_detected is true only if the latest burst decision
\* returned true: a decision that returns false, for too few bits, too
\* little power or a failed correlation, and a buffer the squelch rejects
\* leave burst_detected false.
C37_BurstFlagFollowsDecision ==
    /\ status.burst_detected => det.ret
    /\ (/\ buffers >= 1
        /\ sdr_pc = "process"
        /\ demod_call.len >= 2
        /\ demod_call.signal_power < SquelchThreshold)
       => ~status.burst_detected

----------------------------------------------------------------------------
(* Claims about tea1_decrypt_stream                                        *)

\* block i of a byte sequence, counted from 0
BlockOf(bytes, i) ==
    SubSeq(bytes, i * Tea1BlockSize + 1, (i + 1) * Tea1BlockSize)

\* bytewise exclusive or of two blocks
XorBlock(a, b) == [ j \in 1 .. Tea1BlockSize |-> XorBits[8, a[j], b[j]] ]

\* the decryption of a ciphertext in one call on the context just
\* initialised
OneCall ==
    DecryptStreamFrom([ stream_ctx EXCEPT !.iv = ZeroIv ], stream_input, 0,
                      ZeroIv).output

\* C34: tea1_decrypt_stream over n whole blocks stores
\* P_i = D(C_i) XOR IV_i, IV_0 being the context's IV, all-zero after
\* tea1_init, and IV_(i+1) = C_i, and leaves the last ciphertext block as
\* the context's IV; so the plaintext of a ciphertext is the same whether
\* it is decrypted in one call or split at block boundaries over successive
\* calls; the bytes past the last whole block are not written.
C34_StreamIsChainedAndSplittable ==
    /\ stream_calls = 0 => stream_ctx.iv = ZeroIv
    /\ stream_call.done =>
          LET n == Len(stream_call.input) \div Tea1BlockSize
          IN  /\ \A i \in 0 .. (n - 1) :
                    BlockOf(stream_call.after, i)
                       = XorBlock(DecryptBlock(stream_ctx,
                                               BlockOf(stream_call.input, i)),
                                  IF i = 0 THEN stream_call.iv
                                  ELSE BlockOf(stream_call.input, i - 1))
              /\ stream_ctx.iv = BlockOf(stream_call.input, n - 1)
              /\ \A j \in (n * Tea1BlockSize + 1) .. Len(stream_call.input) :
                    stream_call.after[j] = stream_call.before[j]
              /\ stream_output = OneCall

\* three calls, of two blocks, of 18 bytes and of one block, have decrypted
\* five blocks of ciphertext
C34_Witness ==
    /\ stream_calls = 3
    /\ Len(stream_output) = 5 * Tea1BlockSize
    /\ Len(stream_call.input) = Tea1BlockSize
    /\ stream_call.iv # ZeroIv
    /\ stream_ctx.vulnerability_mode

----------------------------------------------------------------------------
(* Claims about the voice codec                                            *)

\* the fields of a frame: name, first bit, width
FieldTable ==
    { << "lpc_params", 0, 30 >>, << "pitch_period_idx", 30, 7 >>,
      << "pitch_gain_idx", 37, 4 >>, << "codebook_idx", 41, 52 >>,
      << "fixed_gain_idx", 93, 10 >> }

\* the value of a field read most significant bit first with its full
\* width, as the set of its bits that are set
FieldValue(data, start, width) ==
    { width - 1 - i : i \in { k \in 0 .. (width - 1) :
                                 FrameBit(data, start + k) = 1 } }

\* C35: tetra_codec_decode_frame reads every field most significant bit
\* first at its table offset with its full width; the fixed-codebook index
\* is the 52-bit value of frame bits 41 .. 92, pulse p is placed at bits
\* 6p .. 6p + 5 of it mod 160 with the sign of its bit 6p + 6, and no
\* bit of a field is lost or aliased by 32-bit arithmetic.
C35_FieldsReadInFull ==
    encoded_bits # << >> =>
        /\ \A f \in FieldTable :
              codec_fields[f[1]] = FieldValue(encoded_bits, f[2], f[3])
        /\ LET index == FieldValue(encoded_bits, 41, 52)
           IN  \A p \in 0 .. 3 :
                  /\ pulses[p].pos
                        = SixBits(index, 6 * p) % TetraCodecSamples
                  /\ pulses[p].sign = 1 <=> (6 * p + 6) \in index

----------------------------------------------------------------------------
(* Claims about sdr_callback                                               *)

\* the bytes a codec frame of these bits packs into, most significant bit
\* first
FrameOf(bits) == PackFrame([ bit_count |-> Len(bits), demod_bits |-> bits ])

\* C30: for a buffer in which a burst is detected, if the active
\* demodulator is the control one its bits are parsed as a control PDU and,
\* when they decode, fed to the channel manager, and nothing is decrypted,
\* decoded or written as audio for that buffer; otherwise a frame is
\* decrypted exactly when vulnerability mode is on and the buffer gave at
\* least 137 bits, and the bits decrypted are the ones the active
\* demodulator has just produced from this buffer.
C30_ControlBufferIsNotDecrypted ==
    cb.burst =>
        IF cb.active = "control_demod"
        THEN /\ cb.parsed
             /\ cb_bits = cb.produced
             /\ decode_ok => cb.fed /\ control_msg_count > 0
             /\ ~cb.decrypted
             /\ ~cb.decoded
             /\ cb.written = { }
        ELSE /\ cb.decrypted <=>
                    /\ g_config.use_known_vulnerability
                    /\ Len(cb.produced) >= TetraCodecFrameSize
             /\ cb.decrypted =>
                    /\ demod[cb.active].bit_count = Len(cb.produced)
                    /\ cb.encrypted_bits = FrameOf(cb.produced)
             /\ cb.decoded => cb.decrypted
             /\ cb.written # { } => cb.decoded

\* in vulnerability mode a grant of a codec frame's length was parsed on
\* the control channel and followed, without a decryption; the next buffer
\* went to g_demod and its bits, not the grant's, were decrypted
C30_Witness ==
    /\ g_config.use_known_vulnerability
    /\ g_config.enable_trunking
    /\ callbacks = 2
    /\ control_msg_count = 1
    /\ demod["control_demod"].bit_count >= TetraCodecFrameSize
    /\ cb.burst
    /\ cb.active = "g_demod"
    /\ cb.decrypted
    /\ cb.encrypted_bits = PackFrame(demod["g_demod"])
    /\ cb.encrypted_bits # PackFrame(demod["control_demod"])
    /\ cb.decrypted_bits
         = DecryptStreamFrom(g_tea1_ctx, cb.encrypted_bits, 0, ZeroIv).output
    /\ cb.written = { "playback", "file" }

====
